---- MODULE Spec2Model ----
(***************************************************************************)
(* OpenTrust Protocol (JavaScript SDK): NeutrosophicJudgment, the three    *)
(* fusion operators, conformance seals and judgment ids.                   *)
(*                                                                         *)
(* Numbers are JavaScript numbers: binary floating point with round to     *)
(* nearest, ties to even, after every arithmetic operation, plus NaN.      *)
(* The mantissa is MantissaBits wide instead of 53; exponent range is not  *)
(* bounded (no overflow, no subnormals).  A finite number is kept as the   *)
(* fraction n/d in lowest terms, so that equal numbers are equal records.  *)
(***************************************************************************)
EXTENDS Integers, Sequences, FiniteSets, TLC

(* ---------------------------------------------------------------- bounds *)
MantissaBits == 4

MaxJudgments == 3

(* --------------------------------------------------------------- numbers *)
NaN == [nan |-> TRUE, n |-> 0, d |-> 1]

IsNaN(x) == x.nan

Abs(i) == IF i < 0 THEN -i ELSE i

RECURSIVE Gcd(_, _)
Gcd(a, b) == IF b = 0 THEN a ELSE Gcd(b, a % b)

RECURSIVE Pow2(_)
Pow2(k) == IF k = 0 THEN 1 ELSE 2 * Pow2(k - 1)

(* the fraction n/d (d > 0) in lowest terms, g being gcd(|n|, d) *)
Reduced(n, d, g) == [nan |-> FALSE, n |-> n \div g, d |-> d \div g]

Frac(n, d) == Reduced(n, d, Gcd(Abs(n), d))

Num(n) == Frac(n, 1)

MantissaLow == Pow2(MantissaBits - 1)

MantissaHigh == Pow2(MantissaBits)

(* the least k with n * 2^k >= lo (n > 0) *)
RECURSIVE ShiftUp(_, _)
ShiftUp(n, lo) == IF n >= lo THEN 0 ELSE 1 + ShiftUp(2 * n, lo)

(* the least k with n < hi * 2^k *)
RECURSIVE ShiftDown(_, _)
ShiftDown(n, hi) == IF n < hi THEN 0 ELSE 1 + ShiftDown(n, 2 * hi)

(* the integer nearest to n/d, ties to even *)
NearestEven(n, d) ==
  LET m == n \div d
      r == n % d
  IN  IF (2 * r > d) \/ (2 * r = d /\ m % 2 = 1) THEN m + 1 ELSE m

(* round the positive fraction n/d to MantissaBits significant bits: the   *)
(* fraction is scaled by a power of two into [2^(bits-1), 2^bits), rounded  *)
(* to the nearest integer, ties to even, and scaled back                    *)
Scaled(n, d, up, down) ==
  IF up > 0 THEN Frac(NearestEven(n * Pow2(up), d), Pow2(up))
  ELSE Num(NearestEven(n, d * Pow2(down)) * Pow2(down))

RoundPos(n, d) ==
  Scaled(n, d, ShiftUp(n, d * MantissaLow), ShiftDown(n, d * MantissaHigh))

Negated(r) == Frac(-r.n, r.d)

Round(n, d) ==
  IF n = 0 THEN Num(0)
  ELSE IF n > 0 THEN RoundPos(n, d)
  ELSE Negated(RoundPos(-n, d))

(* x + y, x - y, x * y, x / y of JavaScript numbers *)
Add(x, y) ==
  IF IsNaN(x) \/ IsNaN(y) THEN NaN ELSE Round(x.n * y.d + y.n * x.d, x.d * y.d)

Sub(x, y) ==
  IF IsNaN(x) \/ IsNaN(y) THEN NaN ELSE Round(x.n * y.d - y.n * x.d, x.d * y.d)

Mul(x, y) ==
  IF IsNaN(x) \/ IsNaN(y) THEN NaN ELSE Round(x.n * y.n, x.d * y.d)

(* y = 0 gives an infinity or NaN in JavaScript; no caller in the model     *)
(* divides by zero, the quotient is NaN there                               *)
Div(x, y) ==
  IF IsNaN(x) \/ IsNaN(y) \/ y.n = 0 THEN NaN
  ELSE IF y.n > 0 THEN Round(x.n * y.d, x.d * y.n)
  ELSE Round(-(x.n * y.d), x.d * (-y.n))

(* x < y, x > y, x <= y, x === y: every comparison with NaN is false *)
Lt(x, y) == ~IsNaN(x) /\ ~IsNaN(y) /\ x.n * y.d < y.n * x.d

Gt(x, y) == Lt(y, x)

Le(x, y) == ~IsNaN(x) /\ ~IsNaN(y) /\ x.n * y.d <= y.n * x.d

StrictEq(x, y) == ~IsNaN(x) /\ ~IsNaN(y) /\ x = y

(* ------------------------------------------------------- strings, values *)
(* a property that is missing or holds no string reads as Undefined *)
Undefined == "<undefined>"

(* !s of a string-valued property: true for undefined and for '' *)
Falsy(s) == s = Undefined \/ s = ""

(* metadata?: Record<string, any>.  kind "undefined": no metadata; "plain": *)
(* a serialisable object with content note; "cyclic": an object that refers *)
(* to itself, which JSON.stringify rejects; the other kinds are the objects *)
(* the library builds, weights being the reference of a weights array and   *)
(* link the links_to_judgment_id an oracle entry records                   *)
Meta(kind, note, count, weights) ==
  [kind |-> kind, note |-> note, input_count |-> count, weights |-> weights, link |-> ""]


NoMeta == Meta("undefined", "", 0, 0)

(* conformance_seal / judgment_id: absent, or a string.  A string is kept  *)
(* as a sequence: '' is << >>, a SHA-256 digest is <<text>> with text the   *)
(* hashed text (the digest stands for the text: no collisions)             *)
NoString == [def |-> FALSE, s |-> << >>]

Str(s) == [def |-> TRUE, s |-> s]

Sha256Hex(text) == Str(<<text>>)

(* a string the caller wrote, which is the digest of nothing the model hashes *)
Literal(s) == Str(<<<<s>>>>)

(* !s of such a property: true when it is absent and when it is '' *)
Empty(s) == ~s.def \/ s.s = << >>

(* the sequence f as a tuple of evaluated elements: TLC keeps a function   *)
(* [k \in 1..n |-> e] unevaluated and computes e again at every f[k]      *)
Array(f) == SubSeq(f, 1, Len(f))

(* ProvenanceEntry, with the two extended fields *)
Entry(source_id, timestamp, description, metadata, seal, jid) ==
  [source_id |-> source_id, timestamp |-> timestamp, description |-> description,
   metadata |-> metadata, conformance_seal |-> seal, judgment_id |-> jid]

PlainEntry(source_id, timestamp, description, metadata) ==
  Entry(source_id, timestamp, description, metadata, NoString, NoString)

(* ------------------------------------------------------------------ state *)
VARIABLES
  entries,       \* heap: the provenance entry objects, by reference 1..Len
  arrays,        \* heap: the arrays of entries [elems: references, frozen,
                 \* caller: the caller holds a reference to the array]
  weightArrays,  \* heap: the weights arrays [elems, passed: the caller's own]
  judgments,     \* the NeutrosophicJudgment instances constructed so far
  now,           \* the wall clock read by new Date()
  outcomes,      \* the OutcomeJudgment objects created so far
  mappers,       \* heap: the mapper objects constructed so far
  registry,      \* the Map of a MapperRegistry: [id, mapper] in insertion order
  last           \* the last call: its arguments and its outcome

vars == <<entries, arrays, weightArrays, judgments, now, outcomes, mappers, registry, last>>

(* the entries seen through judgment j's provenance_chain, in order *)
ChainRefs(j) == arrays[j.provenance_chain].elems

Chain(j) == Array([k \in 1..Len(ChainRefs(j)) |-> entries[ChainRefs(j)[k]]])

(* the record of a call *)
(* op: the function called; outcome: "ok" (it returned a judgment, res),   *)
(* "true" / "false" (it returned that), "throw" (error names the class of  *)
(* the error thrown, msg its message); js, ws, T, I, F, chain: arguments,  *)
(* and for a fusion operator T, I, F are the degrees it computed           *)
Call(op, outcome, error, msg, res, js, ws, T, I, F, chain) ==
  [op |-> op, outcome |-> outcome, error |-> error, msg |-> msg, res |-> res,
   js |-> js, ws |-> ws, T |-> T, I |-> I, F |-> F, chain |-> chain]

NoCall == Call("none", "ok", "", "", 0, << >>, << >>, NaN, NaN, NaN, << >>)

(* an uncaught error ends the run, and so does reading a verdict *)
Running == last.outcome = "ok"

(* the run goes on and the heap has room for one more judgment *)
CanAllocate == Running /\ Len(judgments) < MaxJudgments

(* ---------------------------------------------------- NeutrosophicJudgment *)
(* validate(T, I, F, provenance_chain): "" when it returns, else the message *)
(* of the Error it throws                                                   *)
validate(T, I, F, chain) ==
  IF Lt(T, Num(0)) \/ Gt(T, Num(1)) THEN "T value must be between 0 and 1"
  ELSE IF Lt(I, Num(0)) \/ Gt(I, Num(1)) THEN "I value must be between 0 and 1"
  ELSE IF Lt(F, Num(0)) \/ Gt(F, Num(1)) THEN "F value must be between 0 and 1"
  ELSE IF Gt(Add(Add(T, I), F), Num(1)) THEN "Conservation constraint violated"
  ELSE IF Len(chain) = 0 THEN "Provenance chain cannot be empty"
  ELSE IF \E k \in 1..Len(chain) :
            /\ Falsy(chain[k].source_id)
            /\ \A m \in 1..(k - 1) : ~Falsy(chain[m].timestamp)
    THEN "Provenance entry must have source_id"
  ELSE IF \E k \in 1..Len(chain) : Falsy(chain[k].timestamp)
    THEN "Provenance entry must have timestamp"
  ELSE ""

(* this.provenance_chain = Object.freeze([...provenance_chain]) *)
FrozenCopy(refs) == [elems |-> refs, frozen |-> TRUE, caller |-> FALSE]

(* new NeutrosophicJudgment(T, I, F, provenance_chain), provenance_chain    *)
(* being the array arr of the heap (es: entry objects, as: arrays): msg is  *)
(* "" and judgment the new instance, or msg is the message of the Error    *)
NeutrosophicJudgment(T, I, F, es, as, arr) ==
  LET msg == validate(T, I, F, Array([k \in 1..Len(as[arr].elems) |-> es[as[arr].elems[k]]]))
  IN  [msg |-> msg,
       arrays |-> Append(as, FrozenCopy(as[arr].elems)),
       judgment |-> [T |-> T, I |-> I, F |-> F, provenance_chain |-> Len(as) + 1]]

(* ------------------------------------------------------- canonical JSON *)
(* JSON.stringify of a number: NaN is written null *)
JsonNumber(x) == IF IsNaN(x) THEN <<"null">> ELSE <<x.n, x.d>>

JsonNumbers(ws) == Array([k \in 1..Len(ws) |-> JsonNumber(ws[k])])

(* JSON.stringify throws a TypeError on an object that refers to itself *)
Serialisable(m) == m.kind # "cyclic"

(* JSON.stringify of a metadata object; an undefined property is left out, *)
(* a weights property is written with the array's elements at this moment  *)
JsonMeta(m) ==
  IF m.kind = "undefined" THEN << >>
  ELSE <<m.kind, m.note, m.input_count,
         IF m.weights = 0 THEN << >> ELSE JsonNumbers(weightArrays[m.weights].elems),
         m.link>>

(* a canonical entry that keeps the conformance_seal as well *)
CanonicalEntry_withSeal(e) ==
  <<e.source_id, e.timestamp, e.description, JsonMeta(e.metadata), e.conformance_seal>>

(* the chain entry both canonical forms keep: source_id, timestamp,        *)
(* description and metadata; conformance_seal and judgment_id are dropped  *)
CanonicalEntry(e) ==
  <<e.source_id, e.timestamp, e.description, JsonMeta(e.metadata)>>

CanonicalChain(chain) == Array([k \in 1..Len(chain) |-> CanonicalEntry(chain[k])])

(* the canonical form of the degrees T, I, F and the chain of entries *)
CanonicalForm(T, I, F, chain) ==
  <<JsonNumber(T), JsonNumber(I), JsonNumber(F), CanonicalChain(chain)>>

CanonicalJudgment(j) == CanonicalForm(j.T, j.I, j.F, Chain(j))

ChainSerialisable(j) ==
  \A k \in 1..Len(ChainRefs(j)) : Serialisable(entries[ChainRefs(j)[k]].metadata)

(* a.localeCompare(b) < 0, = 0, > 0 by the collation rank of the strings   *)
(* the model uses                                                           *)
CollationRank(s) ==
  CASE s = Undefined -> 0
    [] s = "" -> 0
    [] s = "mapper1" -> 1
    [] s = "oracle1" -> 2
    [] s = "otp-cawa-v1.1" -> 3
    [] s = "otp-judgment-id-generator" -> 4
    [] s = "otp-optimistic-v1.1" -> 5
    [] s = "otp-pessimistic-v1.1" -> 6
    [] s = "sensor1" -> 7
    [] s = "sensor2" -> 8
    [] OTHER -> 9

localeCompare(a, b) == CollationRank(a) - CollationRank(b)

(* ------------------------------------------------------ conformance seal *)
SEAL_SEPARATOR == "::"

(* the source_id of the last provenance entry of a pair's judgment *)
LastSource(pair) ==
  IF Len(pair.chain) > 0 THEN pair.chain[Len(pair.chain)][1] ELSE ""

(* Array.prototype.sort with the comparator of step 3: a stable sort *)
RECURSIVE InsertPair(_, _)
InsertPair(sorted, p) ==
  IF sorted = << >> THEN <<p>>
  ELSE IF localeCompare(LastSource(sorted[Len(sorted)]), LastSource(p)) <= 0
    THEN Append(sorted, p)
  ELSE Append(InsertPair(SubSeq(sorted, 1, Len(sorted) - 1), p), sorted[Len(sorted)])

RECURSIVE SortPairs(_)
SortPairs(pairs) ==
  IF pairs = << >> THEN << >>
  ELSE InsertPair(SortPairs(SubSeq(pairs, 1, Len(pairs) - 1)), pairs[Len(pairs)])

(* step 2: one pair per judgment *)
JudgmentWeightPair(j, w) ==
  [T |-> JsonNumber(j.T), I |-> JsonNumber(j.I), F |-> JsonNumber(j.F),
   chain |-> CanonicalChain(Chain(j)),
   weight |-> JsonNumber(w)]

(* generateConformanceSeal(judgments, weights, operatorId):                *)
(* [ok, seal] with the seal, or ok = FALSE when it throws ConformanceError *)
generateConformanceSeal(js, weights, operatorId) ==
  IF Len(js) # Len(weights) THEN [ok |-> FALSE, seal |-> NoString]
  ELSE IF Len(js) = 0 THEN [ok |-> FALSE, seal |-> NoString]
  ELSE IF Falsy(operatorId) THEN [ok |-> FALSE, seal |-> NoString]
  ELSE IF \E k \in 1..Len(js) : ~ChainSerialisable(js[k])
    THEN [ok |-> FALSE, seal |-> NoString]
  ELSE
    LET pairs == Array([k \in 1..Len(js) |-> JudgmentWeightPair(js[k], weights[k])])
        canonicalJson == SortPairs(pairs)
    IN  [ok |-> TRUE,
         seal |-> Sha256Hex(<<canonicalJson, SEAL_SEPARATOR, operatorId>>)]

(* createFusionProvenanceEntry(operatorId, timestamp, conformanceSeal,     *)
(* description, metadata)                                                  *)
createFusionProvenanceEntry(operatorId, timestamp, conformanceSeal, description, metadata) ==
  Entry(operatorId, timestamp, description, metadata, conformanceSeal, NoString)

(* ----------------------------------------------------------- judgment id *)
(* generateJudgmentId(judgment); JSON.stringify is not guarded there, so an *)
(* unserialisable chain makes it throw a TypeError: ok = FALSE              *)
generateJudgmentId(j) ==
  IF ~ChainSerialisable(j) THEN [ok |-> FALSE, id |-> NoString]
  ELSE [ok |-> TRUE, id |-> Sha256Hex(CanonicalJudgment(j))]

(* generateJudgmentId of a judgment that holds T, I, F and the entries of  *)
(* chain, whichever heap they are in                                        *)
JudgmentIdOf(T, I, F, chain) ==
  IF \E k \in 1..Len(chain) : ~Serialisable(chain[k].metadata)
    THEN [ok |-> FALSE, id |-> NoString]
  ELSE [ok |-> TRUE, id |-> Sha256Hex(CanonicalForm(T, I, F, chain))]

(* (entry as any).judgment_id is truthy *)
HasJudgmentId(e) == e.judgment_id.def /\ e.judgment_id.s # << >>

(* new Date().toISOString() *)
toISOString(t) == <<"2023-01-01T00:00:00Z", "2023-01-01T00:00:01Z", "2023-01-01T00:00:02Z", "2023-01-01T00:00:03Z">>[t + 1]

(* ---------------------------------------------------------------- fusion *)
(* a weight that is no number (a string, say) *)
NotANumber == [nan |-> TRUE, n |-> 1, d |-> 1]

(* typeof w === 'number' && !isNaN(w) *)
IsNumeric(w) == ~w.nan

(* judgments.reduce((sum, x) => sum + x, 0) over the sequence xs *)
RECURSIVE reduce(_)
reduce(xs) ==
  IF xs = << >> THEN Num(0)
  ELSE Add(reduce(SubSeq(xs, 1, Len(xs) - 1)), xs[Len(xs)])

(* Math.max(...xs), Math.min(...xs): NaN if any argument is NaN *)
MathMax(xs) ==
  IF \E k \in 1..Len(xs) : IsNaN(xs[k]) THEN NaN
  ELSE CHOOSE x \in {xs[k] : k \in 1..Len(xs)} : \A k \in 1..Len(xs) : Le(xs[k], x)

MathMin(xs) ==
  IF \E k \in 1..Len(xs) : IsNaN(xs[k]) THEN NaN
  ELSE CHOOSE x \in {xs[k] : k \in 1..Len(xs)} : \A k \in 1..Len(xs) : Le(x, xs[k])

(* validateInputs without the check of the weights' type *)
validateInputs_unchecked(js, weights, checkWeights) ==
  IF Len(js) = 0 THEN "Judgments list cannot be empty"
  ELSE IF \E k \in 1..Len(js) : js[k] = 0
    THEN "All items in the judgments list must be of type NeutrosophicJudgment"
  ELSE IF checkWeights /\ Len(js) # Len(weights)
    THEN "Judgments list and weights list must have the same length"
  ELSE ""

(* validateInputs(judgments, weights): "" when it returns, else the message *)
(* of the Error.  js holds judgment indices, 0 for an element that is no    *)
(* NeutrosophicJudgment; checkWeights is false when no weights are passed   *)
validateInputs(js, weights, checkWeights) ==
  IF Len(js) = 0 THEN "Judgments list cannot be empty"
  ELSE IF \E k \in 1..Len(js) : js[k] = 0
    THEN "All items in the judgments list must be of type NeutrosophicJudgment"
  ELSE IF checkWeights /\ Len(js) # Len(weights)
    THEN "Judgments list and weights list must have the same length"
  ELSE IF checkWeights /\ \E k \in 1..Len(weights) : ~IsNumeric(weights[k])
    THEN "All weights must be numeric"
  ELSE ""

(* weights that leave the conflict T*F out *)
adjustedWeights_plain(J, weights) == weights

(* the degrees conflict_aware_weighted_average computes *)
(* "Calculate adjusted weights based on conflicts" *)
adjustedWeights(J, weights) ==
  Array([i \in 1..Len(J) |-> Mul(weights[i], Sub(Num(1), Mul(J[i].T, J[i].F)))])

(* finalT, finalI, finalF for the adjusted weights a and their total *)
finalDegrees(J, a, totalAdjustedWeight) ==
  IF StrictEq(totalAdjustedWeight, Num(0)) THEN
    [T |-> Div(reduce(Array([i \in 1..Len(J) |-> J[i].T])), Num(Len(J))),
     I |-> Div(reduce(Array([i \in 1..Len(J) |-> J[i].I])), Num(Len(J))),
     F |-> Div(reduce(Array([i \in 1..Len(J) |-> J[i].F])), Num(Len(J)))]
  ELSE
    [T |-> Div(reduce(Array([i \in 1..Len(J) |-> Mul(J[i].T, a[i])])), totalAdjustedWeight),
     I |-> Div(reduce(Array([i \in 1..Len(J) |-> Mul(J[i].I, a[i])])), totalAdjustedWeight),
     F |-> Div(reduce(Array([i \in 1..Len(J) |-> Mul(J[i].F, a[i])])), totalAdjustedWeight)]

withTotal(J, a) == finalDegrees(J, a, reduce(a))

cawaDegrees(J, weights) == withTotal(J, adjustedWeights(J, weights))

(* "Ensure conservation constraint is satisfied": scale down by the total *)
scaleDown(T, I, F, total) ==
  IF Gt(total, Num(1))
    THEN [T |-> Div(T, total), I |-> Div(I, total), F |-> Div(F, total)]
    ELSE [T |-> T, I |-> I, F |-> F]

rescale(T, I, F) == scaleDown(T, I, F, Add(Add(T, I), F))

(* the degrees optimistic_fusion and pessimistic_fusion compute *)
optimisticDegrees(J) ==
  rescale(MathMax(Array([i \in 1..Len(J) |-> J[i].T])),
          Div(reduce(Array([i \in 1..Len(J) |-> J[i].I])), Num(Len(J))),
          MathMin(Array([i \in 1..Len(J) |-> J[i].F])))

pessimisticDegrees(J) ==
  rescale(MathMin(Array([i \in 1..Len(J) |-> J[i].T])),
          Div(reduce(Array([i \in 1..Len(J) |-> J[i].I])), Num(Len(J))),
          MathMax(Array([i \in 1..Len(J) |-> J[i].F])))

(* new Array(n).fill(1.0) *)
equalWeights(n) == Array([k \in 1..n |-> Num(1)])

(* the chains of the inputs, the last input first *)
RECURSIVE newProvenance_reversed(_)
newProvenance_reversed(J) ==
  IF J = << >> THEN << >>
  ELSE ChainRefs(J[Len(J)]) \o newProvenance_reversed(SubSeq(J, 1, Len(J) - 1))

(* "Build the new provenance chain": the entries of every input, in order *)
RECURSIVE newProvenance(_)
newProvenance(J) ==
  IF J = << >> THEN << >>
  ELSE newProvenance(SubSeq(J, 1, Len(J) - 1)) \o ChainRefs(J[Len(J)])

(* no seal at all when generation throws *)
conformanceSeal_absent(J, weights, operatorId) ==
  LET g == generateConformanceSeal(J, weights, operatorId)
  IN  IF g.ok THEN g.seal ELSE NoString

(* a seal over equal weights whatever the weights given *)
conformanceSeal_equalWeights(J, weights, operatorId) ==
  LET g == generateConformanceSeal(J, equalWeights(Len(J)), operatorId)
  IN  IF g.ok THEN g.seal ELSE Str(<< >>)

(* the seal a fusion operator stores: the sentinel '' when generation throws *)
conformanceSeal(J, weights, operatorId) ==
  LET g == generateConformanceSeal(J, weights, operatorId)
  IN  IF g.ok THEN g.seal ELSE Str(<< >>)

(* --------------------------------------------------------------- actions *)
Throw(op, error, msg, js, ws, T, I, F, chain) ==
  /\ last' = Call(op, "throw", error, msg, 0, js, ws, T, I, F, chain)
  /\ UNCHANGED <<entries, arrays, weightArrays, judgments, now, outcomes, mappers, registry>>

(* what new NeutrosophicJudgment(T, I, F, [e1, ...]) does to the heap, lits *)
(* being the entry objects of the caller's array literal                   *)
Constructed(T, I, F, lits) ==
  LET es == entries \o lits
      as == Append(arrays, [elems |-> Array([k \in 1..Len(lits) |-> Len(entries) + k]),
                            frozen |-> FALSE, caller |-> TRUE])
      c == NeutrosophicJudgment(T, I, F, es, as, Len(as))
  IN  [msg |-> c.msg, entries |-> es, arrays |-> c.arrays, judgment |-> c.judgment]

(* const j = new NeutrosophicJudgment(T, I, F, [e1, ...]) by the caller *)
Construct(T, I, F, lits) ==
  \E r \in {Constructed(T, I, F, lits)} :
       IF r.msg # "" THEN Throw("construct", "Error", r.msg, << >>, << >>, T, I, F, lits)
       ELSE /\ entries' = r.entries
            /\ arrays' = r.arrays
            /\ judgments' = Append(judgments, r.judgment)
            /\ last' = Call("construct", "ok", "", "", Len(judgments) + 1,
                            << >>, << >>, T, I, F, lits)
            /\ UNCHANGED <<weightArrays, now, outcomes, mappers, registry>>

(* the end of a fusion operator: the seal, the new chain, the fusion entry *)
(* and the judgment, for the inputs J, the weights w sealed and the degrees *)
(* final                                                                    *)
Sealed(op, operatorId, description, J, w, final) ==
  LET fusionEntry ==
        createFusionProvenanceEntry(operatorId, toISOString(now),
          conformanceSeal(J, w, operatorId), description,
          Meta("fusion", op, Len(J), Len(weightArrays) + 1))
      es == Append(entries, fusionEntry)
      as == Append(arrays, [elems |-> Append(newProvenance(J), Len(es)),
                            frozen |-> FALSE, caller |-> FALSE])
      c == NeutrosophicJudgment(final.T, final.I, final.F, es, as, Len(as))
  IN  [msg |-> c.msg, T |-> final.T, I |-> final.I, F |-> final.F, entries |-> es,
       arrays |-> c.arrays, weights |-> w, judgment |-> c.judgment]

(* the degrees of operator op for the inputs J and the weights w *)
Degrees(op, J, w) ==
  CASE op = "conflict_aware_weighted_average" -> cawaDegrees(J, w)
    [] op = "optimistic_fusion" -> optimisticDegrees(J)
    [] op = "pessimistic_fusion" -> pessimisticDegrees(J)

Computed(op, operatorId, description, J, w) ==
  Sealed(op, operatorId, description, J, w, Degrees(op, J, w))

(* the body the three fusion operators share: validateInputs, the degrees,  *)
(* the seal, the new chain, the fusion entry, the judgment.  msg is the     *)
(* message of the Error thrown, "" if none                                  *)
Fused(op, operatorId, description, js, ws, withWeights) ==
  IF validateInputs(js, ws, withWeights) # ""
    THEN [msg |-> validateInputs(js, ws, withWeights), T |-> NaN, I |-> NaN, F |-> NaN,
          entries |-> entries, arrays |-> arrays, weights |-> << >>, judgment |-> 0]
    ELSE Computed(op, operatorId, description,
                  Array([k \in 1..Len(js) |-> judgments[js[k]]]),
                  IF withWeights THEN ws ELSE equalWeights(Len(js)))

Fuse(op, operatorId, description, js, ws, withWeights) ==
  \E r \in {Fused(op, operatorId, description, js, ws, withWeights)} :
    IF r.msg # "" THEN Throw(op, "Error", r.msg, js, ws, r.T, r.I, r.F, << >>)
    ELSE /\ entries' = r.entries
         /\ arrays' = r.arrays
         /\ weightArrays' = Append(weightArrays, [elems |-> r.weights, passed |-> withWeights])
         /\ judgments' = Append(judgments, r.judgment)
         /\ last' = Call(op, "ok", "", "", Len(judgments) + 1, js, ws, r.T, r.I, r.F, << >>)
         /\ UNCHANGED <<now, outcomes, mappers, registry>>

conflict_aware_weighted_average(js, ws) ==
  Fuse("conflict_aware_weighted_average", "otp-cawa-v1.1",
          "Conflict-aware weighted average fusion operation with Conformance Seal",
          js, ws, TRUE)

optimistic_fusion(js) ==
  Fuse("optimistic_fusion", "otp-optimistic-v1.1",
          "Optimistic fusion operation with Conformance Seal",
          js, << >>, FALSE)

pessimistic_fusion(js) ==
  Fuse("pessimistic_fusion", "otp-pessimistic-v1.1",
          "Pessimistic fusion operation with Conformance Seal",
          js, << >>, FALSE)

(* an ensureJudgmentId that computes the id of the judgment with the new   *)
(* entry already appended                                                   *)
WithJudgmentId_after(judgment) ==
  LET pending ==
        Entry("otp-judgment-id-generator", toISOString(now),
              "Automatic Judgment ID generation for Circle of Trust",
              Meta("idgen", "circle-of-trust-tracking", 0, 0), NoString, NoString)
      g == JudgmentIdOf(judgment.T, judgment.I, judgment.F, Append(Chain(judgment), pending))
      es == Append(entries, [pending EXCEPT !.judgment_id = g.id])
      as == Append(arrays, [elems |-> Append(ChainRefs(judgment), Len(es)),
                            frozen |-> FALSE, caller |-> FALSE])
      c == NeutrosophicJudgment(judgment.T, judgment.I, judgment.F, es, as, Len(as))
  IN  [error |-> IF ~g.ok THEN "TypeError" ELSE IF c.msg # "" THEN "Error" ELSE "",
       msg |-> IF ~g.ok THEN "Converting circular structure to JSON" ELSE c.msg,
       entries |-> es, arrays |-> c.arrays, judgment |-> c.judgment]

(* an ensureJudgmentId that writes the id into the last entry the judgment *)
(* already has, instead of appending an entry                               *)
WithJudgmentId_retroactive(judgment) ==
  LET g == generateJudgmentId(judgment)
      lastRef == ChainRefs(judgment)[Len(ChainRefs(judgment))]
      es == [entries EXCEPT ![lastRef].judgment_id = g.id]
      as == Append(arrays, [elems |-> ChainRefs(judgment), frozen |-> FALSE, caller |-> FALSE])
      c == NeutrosophicJudgment(judgment.T, judgment.I, judgment.F, es, as, Len(as))
  IN  [error |-> IF ~g.ok THEN "TypeError" ELSE IF c.msg # "" THEN "Error" ELSE "",
       msg |-> IF ~g.ok THEN "Converting circular structure to JSON" ELSE c.msg,
       entries |-> es, arrays |-> c.arrays, judgment |-> c.judgment]

(* what ensureJudgmentId does to a judgment without a judgment_id *)
WithJudgmentId(judgment) ==
  LET g == generateJudgmentId(judgment)
      newProvenanceEntry ==
        Entry("otp-judgment-id-generator", toISOString(now),
              "Automatic Judgment ID generation for Circle of Trust",
              Meta("idgen", "circle-of-trust-tracking", 0, 0), NoString, g.id)
      es == Append(entries, newProvenanceEntry)
      as == Append(arrays, [elems |-> Append(ChainRefs(judgment), Len(es)),
                            frozen |-> FALSE, caller |-> FALSE])
      c == NeutrosophicJudgment(judgment.T, judgment.I, judgment.F, es, as, Len(as))
  IN  [error |-> IF ~g.ok THEN "TypeError" ELSE IF c.msg # "" THEN "Error" ELSE "",
       msg |-> IF ~g.ok THEN "Converting circular structure to JSON" ELSE c.msg,
       entries |-> es, arrays |-> c.arrays, judgment |-> c.judgment]

(* ensureJudgmentId(judgment), judgment being instance j *)
ensureJudgmentId(j) ==
  /\ j \in 1..Len(judgments)
  /\ IF \E k \in 1..Len(Chain(judgments[j])) : HasJudgmentId(Chain(judgments[j])[k])
       THEN /\ last' = Call("ensureJudgmentId", "ok", "", "", j, <<j>>, << >>,
                            judgments[j].T, judgments[j].I, judgments[j].F, << >>)
            /\ UNCHANGED <<entries, arrays, weightArrays, judgments, now, outcomes, mappers, registry>>
       ELSE
         /\ Len(judgments) < MaxJudgments
         /\ \E r \in {WithJudgmentId(judgments[j])} :
              IF r.error # ""
                THEN Throw("ensureJudgmentId", r.error, r.msg, <<j>>, << >>,
                           judgments[j].T, judgments[j].I, judgments[j].F, << >>)
              ELSE /\ entries' = r.entries
                   /\ arrays' = r.arrays
                   /\ judgments' = Append(judgments, r.judgment)
                   /\ last' = Call("ensureJudgmentId", "ok", "", "", Len(judgments) + 1,
                                   <<j>>, << >>, judgments[j].T, judgments[j].I,
                                   judgments[j].F, << >>)
                   /\ UNCHANGED <<weightArrays, now, outcomes, mappers, registry>>

(* a verification that reads the seal from the last entry that has one *)
verifyWithInputs_lastSealed(fused, J, weights) ==
  IF \A k \in 1..Len(Chain(fused)) : Empty(Chain(fused)[k].conformance_seal) THEN "throw"
  ELSE
    LET n == CHOOSE k \in 1..Len(Chain(fused)) :
               /\ ~Empty(Chain(fused)[k].conformance_seal)
               /\ \A m \in (k + 1)..Len(Chain(fused)) : Empty(Chain(fused)[m].conformance_seal)
        regenerated == generateConformanceSeal(J, weights, Chain(fused)[n].source_id)
    IN  IF ~regenerated.ok THEN "throw"
        ELSE IF Chain(fused)[n].conformance_seal = regenerated.seal THEN "true"
        ELSE "false"

(* a verification for which only an absent seal is missing, '' being a seal *)
verifyWithInputs_definedSeal(fused, J, weights) ==
  IF Len(Chain(fused)) = 0 THEN "throw"
  ELSE IF ~Chain(fused)[Len(Chain(fused))].conformance_seal.def THEN "throw"
  ELSE IF ~generateConformanceSeal(J, weights, Chain(fused)[Len(Chain(fused))].source_id).ok
    THEN "throw"
  ELSE IF Chain(fused)[Len(Chain(fused))].conformance_seal
            = generateConformanceSeal(J, weights, Chain(fused)[Len(Chain(fused))].source_id).seal
    THEN "true"
  ELSE "false"

(* a verification that answers false when the seal cannot be regenerated *)
verifyWithInputs_lenient(fused, J, weights) ==
  IF Len(Chain(fused)) = 0 THEN "throw"
  ELSE IF Empty(Chain(fused)[Len(Chain(fused))].conformance_seal) THEN "throw"
  ELSE IF ~generateConformanceSeal(J, weights, Chain(fused)[Len(Chain(fused))].source_id).ok
    THEN "false"
  ELSE IF Chain(fused)[Len(Chain(fused))].conformance_seal
            = generateConformanceSeal(J, weights, Chain(fused)[Len(Chain(fused))].source_id).seal
    THEN "true"
  ELSE "false"

(* the value verifyConformanceSealWithInputs(fusedJudgment, inputJudgments, *)
(* weights) returns, "throw" standing for a ConformanceError                *)
verifyWithInputs(fused, J, weights) ==
  IF Len(Chain(fused)) = 0 THEN "throw"
  ELSE
    LET lastEntry == Chain(fused)[Len(Chain(fused))]
        storedSeal == lastEntry.conformance_seal
        operatorId == lastEntry.source_id
        regenerated == generateConformanceSeal(J, weights, operatorId)
    IN  IF ~storedSeal.def \/ storedSeal.s = << >> THEN "throw"
        ELSE IF ~regenerated.ok THEN "throw"
        ELSE IF storedSeal = regenerated.seal THEN "true"
        ELSE "false"

(* ------------------------------------------------------------ the inputs *)
(* sequences of length 0..n over S *)
SeqsUpTo(S, n) == UNION { [1..k -> S] : k \in 0..n }

(* lists without repetition *)
Injective(js) == \A a, b \in 1..Len(js) : a # b => js[a] # js[b]

sensor1 == PlainEntry("sensor1", "2023-01-01T00:00:00Z", Undefined, NoMeta)

sensor2 == PlainEntry("sensor2", "2023-01-01T00:00:01Z", "reading", Meta("plain", "a", 0, 0))

cyclic2 == PlainEntry("sensor2", "2023-01-01T00:00:02Z", "loop", Meta("cyclic", "", 0, 0))

(* Spec: what the callers construct with, <<T, I, F, provenance_chain>>,   *)
(* the last one failing                                                    *)
ConstructInputs ==
  { <<Frac(3, 4), Frac(1, 8), Frac(1, 8), <<sensor1>>>>,
    <<Num(0), Frac(1, 2), Frac(1, 8), <<sensor2>>>>,
    <<Frac(1, 2), Num(0), Frac(1, 4), <<cyclic2>>>>,
    <<Frac(1, 2), Frac(1, 2), Frac(1, 2), <<sensor1>>>> }

(* Spec: the judgment lists passed to a fusion operator: instances, each   *)
(* at most once, in any order; the weights lists have their length         *)
JudgmentLists == { js \in SeqsUpTo(1..Len(judgments), Len(judgments)) : Injective(js) /\ js # << >> }

WeightInputs == { Num(1), Frac(1, 2) }

Init ==
  /\ entries = << >>
  /\ arrays = << >>
  /\ weightArrays = << >>
  /\ judgments = << >>
  /\ now = 0
  /\ outcomes = << >>
  /\ mappers = << >>
  /\ registry = << >>
  /\ last = NoCall

Next ==
  \/ CanAllocate /\ \E c \in ConstructInputs : Construct(c[1], c[2], c[3], c[4])
  \/ CanAllocate /\ \E js \in JudgmentLists : \E ws \in [1..Len(js) -> WeightInputs] :
       conflict_aware_weighted_average(js, ws)
  \/ CanAllocate /\ \E js \in JudgmentLists : optimistic_fusion(js)
  \/ CanAllocate /\ \E js \in JudgmentLists : pessimistic_fusion(js)
  \/ Running /\ \E j \in 1..Len(judgments) : ensureJudgmentId(j)

Spec == Init /\ [][Next]_vars

(* ------------------------------------------- the caller mutates its data *)
(* SpecAlias: Spec, and the caller writing to what it passed in.  A run     *)
(* looks at one such write: it is the last step                            *)
Mutated(op, res) == Call(op, "done", "", "", res, << >>, << >>, NaN, NaN, NaN, << >>)

(* a[k].description = 'edited', or a[k].metadata.note = 'edited', a being an *)
(* array the caller passed to the constructor                              *)
MutateEntry(a, k, field) ==
  /\ arrays[a].caller
  /\ k \in 1..Len(arrays[a].elems)
  /\ LET e == arrays[a].elems[k]
     IN  /\ field = "metadata" => entries[e].metadata.kind = "plain"
         /\ entries' = [entries EXCEPT ![e] =
              IF field = "description" THEN [@ EXCEPT !.description = "edited"]
              ELSE [@ EXCEPT !.metadata.note = "edited"]]
         /\ last' = Mutated("MutateEntry", e)
  /\ UNCHANGED <<arrays, weightArrays, judgments, now, outcomes, mappers, registry>>

(* a.push(entry), a being an array the caller passed to the constructor *)
PushToArray(a) ==
  /\ arrays[a].caller
  /\ entries' = Append(entries, sensor2)
  /\ arrays' = [arrays EXCEPT ![a].elems = Append(@, Len(entries) + 1)]
  /\ last' = Mutated("PushToArray", a)
  /\ UNCHANGED <<weightArrays, judgments, now, outcomes, mappers, registry>>

(* judgment.provenance_chain.push(entry): the array is frozen, push throws *)
(* a TypeError and leaves it as it is                                       *)
PushToChain(j) ==
  /\ j \in 1..Len(judgments)
  /\ IF arrays[judgments[j].provenance_chain].frozen
       THEN UNCHANGED <<entries, arrays>>
       ELSE /\ entries' = Append(entries, sensor2)
            /\ arrays' = [arrays EXCEPT ![judgments[j].provenance_chain].elems =
                            Append(@, Len(entries) + 1)]
  /\ last' = [Mutated("PushToChain", j) EXCEPT
                !.error = IF arrays[judgments[j].provenance_chain].frozen
                            THEN "TypeError" ELSE ""]
  /\ UNCHANGED <<weightArrays, judgments, now, outcomes, mappers, registry>>

(* weights[k] = 2, weights being the array the caller passed to             *)
(* conflict_aware_weighted_average                                          *)
MutateWeights(w, k) ==
  /\ weightArrays[w].passed
  /\ k \in 1..Len(weightArrays[w].elems)
  /\ weightArrays' = [weightArrays EXCEPT ![w].elems[k] = Num(2)]
  /\ last' = Mutated("MutateWeights", w)
  /\ UNCHANGED <<entries, arrays, judgments, now, outcomes, mappers, registry>>

NextAlias ==
  \/ Next
  \/ Running /\ \E a \in 1..Len(arrays) : \E k \in 1..Len(arrays[a].elems) :
       \E field \in {"description", "metadata"} : MutateEntry(a, k, field)
  \/ Running /\ \E a \in 1..Len(arrays) : PushToArray(a)
  \/ Running /\ \E j \in 1..Len(judgments) : PushToChain(j)
  \/ Running /\ \E w \in 1..Len(weightArrays) : \E k \in 1..Len(weightArrays[w].elems) :
       MutateWeights(w, k)

SpecAlias == Init /\ [][NextAlias]_vars

(* ---------------------------------------------- one construction per run *)
(* SpecConstruct: every combination of these degrees and chains            *)
DegreeValues == { NaN, Frac(-1, 4), Num(0), Frac(1, 2), Num(1), Frac(5, 4) }

EntryValues ==
  { sensor1, sensor2,
    PlainEntry("", "2023-01-01T00:00:00Z", Undefined, NoMeta),
    PlainEntry(Undefined, "2023-01-01T00:00:00Z", "no source", NoMeta),
    PlainEntry("sensor1", "", Undefined, NoMeta),
    PlainEntry("sensor2", Undefined, "no time", NoMeta) }

MaxChain == 2

NextConstruct ==
  /\ last = NoCall
  /\ \E T \in DegreeValues, I \in DegreeValues, F \in DegreeValues :
       \E lits \in SeqsUpTo(EntryValues, MaxChain) : Construct(T, I, F, lits)

SpecConstruct == Init /\ [][NextConstruct]_vars

(* ------------------------------------------------ one fusion call per run *)
(* SpecFusion: the pool holds PoolSize judgments with these degrees, each  *)
(* built by the constructor from a one-entry chain                         *)
PoolSize == MaxJudgments - 1

PoolDegrees ==
  { <<Num(0), Num(0), Num(1)>>, <<Num(1), Num(0), Num(0)>>,
    <<Frac(1, 2), Num(0), Frac(1, 2)>>, <<Frac(3, 4), Frac(1, 8), Frac(1, 8)>>,
    <<Num(0), Frac(1, 2), Frac(1, 8)>>, <<Frac(3, 8), Frac(1, 8), Frac(1, 2)>> }

PoolEntry(k) == IF k % 2 = 1 THEN sensor1 ELSE sensor2

InitFusion ==
  /\ entries = [k \in 1..PoolSize |-> PoolEntry(k)]
  /\ arrays = [k \in 1..PoolSize |-> FrozenCopy(<<k>>)]
  /\ weightArrays = << >>
  /\ \E ts \in [1..PoolSize -> PoolDegrees] :
       judgments = [k \in 1..PoolSize |->
                     [T |-> ts[k][1], I |-> ts[k][2], F |-> ts[k][3], provenance_chain |-> k]]
  /\ now = 0
  /\ outcomes = << >>
  /\ mappers = << >>
  /\ registry = << >>
  /\ last = NoCall

(* the whole pool or a prefix of it, the empty list, and lists holding an  *)
(* element that is no judgment                                             *)
FusionLists ==
  { [k \in 1..n |-> k] : n \in 0..PoolSize } \cup { <<0>>, <<1, 0>> }

FusionWeightValues == { Num(1), Frac(1, 2), Num(0), Frac(-1, 2), NotANumber }

(* a weights list for a list of n judgments: every combination of the      *)
(* values, and the lists one shorter and one longer                        *)
FusionWeightLists(n) ==
  [1..n -> FusionWeightValues] \cup { [k \in 1..m |-> Num(1)] : m \in {n + 1} \cup ({n - 1} \ {-1}) }

NextFusion ==
  /\ last = NoCall
  /\ \/ \E js \in FusionLists : \E ws \in FusionWeightLists(Len(js)) :
          conflict_aware_weighted_average(js, ws)
     \/ \E js \in FusionLists : optimistic_fusion(js)
     \/ \E js \in FusionLists : pessimistic_fusion(js)

SpecFusion == InitFusion /\ [][NextFusion]_vars

(* ------------------------------------------ sealing and then verifying *)
(* the message of the ConformanceError verifyConformanceSealWithInputs      *)
(* throws, "" when it returns                                               *)
verifyFailure(fused, J, weights) ==
  IF Len(Chain(fused)) = 0 THEN "Empty provenance chain"
  ELSE IF Empty(Chain(fused)[Len(Chain(fused))].conformance_seal)
    THEN "Missing conformance seal in fused judgment"
  ELSE IF ~generateConformanceSeal(J, weights, Chain(fused)[Len(Chain(fused))].source_id).ok
    THEN "Failed to regenerate seal"
  ELSE ""

(* verifyConformanceSealWithInputs(fusedJudgment, inputJudgments, weights), *)
(* fusedJudgment being instance f and inputJudgments the instances js       *)
verifyConformanceSealWithInputs(f, js, ws) ==
  \E r \in {verifyWithInputs(judgments[f], Array([k \in 1..Len(js) |-> judgments[js[k]]]), ws)} :
    /\ last' = Call("verifyConformanceSealWithInputs", r,
                    IF r = "throw" THEN "ConformanceError" ELSE "",
                    verifyFailure(judgments[f], Array([k \in 1..Len(js) |-> judgments[js[k]]]), ws),
                    f, js, ws, judgments[f].T, judgments[f].I, judgments[f].F, << >>)
    /\ UNCHANGED <<entries, arrays, weightArrays, judgments, now, outcomes, mappers, registry>>

(* a verification without inputs that accepts whatever seal is stored *)
verifyWithoutInputs_accepting(fused) ==
  IF Len(Chain(fused)) = 0 THEN "throw"
  ELSE IF Empty(Chain(fused)[Len(Chain(fused))].conformance_seal) THEN "throw"
  ELSE "true"

(* the value verifyConformanceSeal(fusedJudgment) returns, "throw" standing *)
(* for a ConformanceError: every path ends in a throw                       *)
verifyWithoutInputs(fused) ==
  IF Len(Chain(fused)) = 0 THEN "throw"
  ELSE IF Empty(Chain(fused)[Len(Chain(fused))].conformance_seal) THEN "throw"
  ELSE "throw"

(* verifyConformanceSeal(fusedJudgment), fusedJudgment being instance f *)
verifyConformanceSeal(f) ==
  \E r \in {verifyWithoutInputs(judgments[f])} :
    /\ last' = Call("verifyConformanceSeal", r,
                    IF r = "throw" THEN "ConformanceError" ELSE "",
                    IF Empty(Chain(judgments[f])[Len(Chain(judgments[f]))].conformance_seal)
                      THEN "Missing conformance seal in fused judgment"
                      ELSE "Complete verification requires input judgments and weights",
                    f, << >>, << >>, judgments[f].T, judgments[f].I, judgments[f].F, << >>)
    /\ UNCHANGED <<entries, arrays, weightArrays, judgments, now, outcomes, mappers, registry>>

(* a caller seals a judgment of its own: generateConformanceSeal over the   *)
(* inputs, createFusionProvenanceEntry with the seal, and a judgment with   *)
(* the degrees T, I, F it chooses on the one-entry chain                    *)
Attached(J, ws, operatorId, T, I, F) ==
  LET g == generateConformanceSeal(J, ws, operatorId)
      provenanceEntry ==
        createFusionProvenanceEntry(operatorId, "2023-01-01T00:00:00Z", g.seal,
                                    "Test fusion operation", NoMeta)
      es == Append(entries, provenanceEntry)
      as == Append(arrays, [elems |-> <<Len(es)>>, frozen |-> FALSE, caller |-> TRUE])
      c == NeutrosophicJudgment(T, I, F, es, as, Len(as))
  IN  [error |-> IF ~g.ok THEN "ConformanceError" ELSE IF c.msg # "" THEN "Error" ELSE "",
       msg |-> IF ~g.ok THEN "Invalid input" ELSE c.msg,
       entries |-> es, arrays |-> c.arrays, judgment |-> c.judgment]

SealAndAttach(js, ws, operatorId, T, I, F) ==
  \E r \in {Attached(Array([k \in 1..Len(js) |-> judgments[js[k]]]), ws, operatorId, T, I, F)} :
    IF r.error # "" THEN Throw("SealAndAttach", r.error, r.msg, js, ws, T, I, F, << >>)
    ELSE /\ entries' = r.entries
         /\ arrays' = r.arrays
         /\ judgments' = Append(judgments, r.judgment)
         /\ last' = Call("SealAndAttach", "ok", "", "", Len(judgments) + 1, js, ws, T, I, F, << >>)
         /\ UNCHANGED <<weightArrays, now, outcomes, mappers, registry>>

(* SpecSeal: a pool of judgments the callers built, one sealing call (a     *)
(* fusion operator or SealAndAttach), then one verification.  The pool      *)
(* holds a base judgment and judgments that differ from it in one degree,   *)
(* in the description, the judgment_id or the conformance_seal of the       *)
(* entry, or in everything                                                  *)
described == PlainEntry("sensor1", "2023-01-01T00:00:00Z", "edited", NoMeta)

withId ==
  Entry("sensor1", "2023-01-01T00:00:00Z", Undefined, NoMeta, NoString, Literal("existing_id"))

withSeal ==
  Entry("sensor1", "2023-01-01T00:00:00Z", Undefined, NoMeta, Literal("a4db4938"), NoString)

SealBase == <<Frac(3, 4), Frac(1, 8), Frac(1, 8), sensor1>>

SealVariants ==
  { <<Frac(1, 2), Frac(1, 8), Frac(1, 8), sensor1>>,
    <<Frac(3, 4), Frac(1, 8), Frac(1, 8), described>>,
    <<Frac(3, 4), Frac(1, 8), Frac(1, 8), withId>>,
    <<Frac(3, 4), Frac(1, 8), Frac(1, 8), withSeal>>,
    <<Num(0), Frac(1, 2), Frac(1, 8), sensor2>>,
    <<Frac(1, 2), Num(0), Frac(1, 4), cyclic2>> }

InitSeal ==
  /\ \E vs \in [2..PoolSize -> SealVariants] :
       /\ entries = [k \in 1..PoolSize |-> IF k = 1 THEN SealBase[4] ELSE vs[k][4]]
       /\ judgments = [k \in 1..PoolSize |->
                        [T |-> IF k = 1 THEN SealBase[1] ELSE vs[k][1],
                         I |-> IF k = 1 THEN SealBase[2] ELSE vs[k][2],
                         F |-> IF k = 1 THEN SealBase[3] ELSE vs[k][3],
                         provenance_chain |-> k]]
  /\ arrays = [k \in 1..PoolSize |-> FrozenCopy(<<k>>)]
  /\ weightArrays = << >>
  /\ now = 0
  /\ outcomes = << >>
  /\ mappers = << >>
  /\ registry = << >>
  /\ last = NoCall

(* the lists that are sealed: the pool or a prefix of it *)
SealedLists == { [k \in 1..n |-> k] : n \in 1..PoolSize }

(* the weights for a list of n judgments: all 1, or the last one 1/2 *)
SealWeightLists(n) ==
  { [k \in 1..n |-> Num(1)], [k \in 1..n |-> IF k = n THEN Frac(1, 2) ELSE Num(1)] }

(* the lists a verifier supplies: pool judgments in any order, each at most *)
(* once, or none; the weights as above, and one list that is too long      *)
SuppliedLists == { js \in SeqsUpTo(1..PoolSize, PoolSize) : Injective(js) }

SuppliedWeightLists(n) == SealWeightLists(n) \cup { [k \in 1..(n + 1) |-> Num(1)] }

(* the degrees a caller gives the judgment it seals itself *)
AttachDegrees == <<Frac(3, 4), Frac(1, 4), Num(0)>>

NextSeal ==
  \/ last = NoCall /\ \E js \in SealedLists : \E ws \in SealWeightLists(Len(js)) :
       conflict_aware_weighted_average(js, ws)
  \/ last = NoCall /\ \E js \in SealedLists : optimistic_fusion(js)
  \/ last = NoCall /\ \E js \in SealedLists : pessimistic_fusion(js)
  \/ last = NoCall /\ \E js \in SealedLists : \E ws \in SealWeightLists(Len(js)) :
       \E operatorId \in {"otp-cawa-v1.1", ""} :
         SealAndAttach(js, ws, operatorId, AttachDegrees[1], AttachDegrees[2], AttachDegrees[3])
  \/ Running /\ \E f \in 1..Len(judgments) : \E js \in SuppliedLists :
       \E ws \in SuppliedWeightLists(Len(js)) : verifyConformanceSealWithInputs(f, js, ws)
  \/ Running /\ \E f \in 1..Len(judgments) : verifyConformanceSeal(f)

SpecSeal == InitSeal /\ [][NextSeal]_vars

(* ------------------------------------------------------- judgment ids *)
(* const id = generateJudgmentId(judgment), judgment being instance j; the  *)
(* call is recorded with outcome "id" and the id as chain[1]                *)
CallGenerateJudgmentId(j) ==
  \E g \in {generateJudgmentId(judgments[j])} :
    /\ last' = Call("generateJudgmentId", IF g.ok THEN "id" ELSE "throw",
                    IF g.ok THEN "" ELSE "TypeError",
                    IF g.ok THEN "" ELSE "Converting circular structure to JSON",
                    j, <<j>>, << >>, judgments[j].T, judgments[j].I, judgments[j].F, <<g.id>>)
    /\ UNCHANGED <<entries, arrays, weightArrays, judgments, now, outcomes, mappers, registry>>

(* SpecIdentity: a pool of judgments the callers built, some of them with   *)
(* a judgment_id or a conformance_seal on their entry; the pool may be      *)
(* fused once, and ids are generated and ensured                            *)
IdentityPool == {SealBase} \cup SealVariants

InitIdentity ==
  /\ \E vs \in [1..PoolSize -> IdentityPool] :
       /\ entries = [k \in 1..PoolSize |-> vs[k][4]]
       /\ judgments = [k \in 1..PoolSize |->
                        [T |-> vs[k][1], I |-> vs[k][2], F |-> vs[k][3], provenance_chain |-> k]]
  /\ arrays = [k \in 1..PoolSize |-> FrozenCopy(<<k>>)]
  /\ weightArrays = << >>
  /\ now = 0
  /\ outcomes = << >>
  /\ mappers = << >>
  /\ registry = << >>
  /\ last = NoCall

NextIdentity ==
  \/ last = NoCall /\ \E js \in SealedLists : optimistic_fusion(js)
  \/ Running /\ \E j \in 1..Len(judgments) : ensureJudgmentId(j)
  \/ Running /\ \E j \in 1..Len(judgments) : CallGenerateJudgmentId(j)

SpecIdentity == InitIdentity /\ [][NextIdentity]_vars

(* ------------------------------------------------------ outcome judgments *)
OutcomeType == {"success", "failure", "partial"}

(* the metadata of an oracle entry: outcome_type, links_to_judgment_id and *)
(* the constant oracle_version                                              *)
OracleMeta(outcomeType, linksToJudgmentId) ==
  [Meta("oracle", outcomeType, 0, 0) EXCEPT !.link = linksToJudgmentId]

(* a validation that compares as the constructor does: NaN passes *)
outcomeMessage_unguarded(T, I, F) ==
  IF Lt(T, Num(0)) \/ Gt(T, Num(1)) THEN "T value must be between 0 and 1, but got T"
  ELSE IF Lt(I, Num(0)) \/ Gt(I, Num(1)) THEN "I value must be between 0 and 1, but got I"
  ELSE IF Lt(F, Num(0)) \/ Gt(F, Num(1)) THEN "F value must be between 0 and 1, but got F"
  ELSE IF Gt(Add(Add(T, I), F), Num(1))
    THEN "Conservation constraint violated: T + I + F = total > 1.0"
  ELSE ""

(* the checks createOutcomeJudgment makes first: "" when they pass, else   *)
(* the message of the error thrown                                          *)
outcomeMessage(T, I, F) ==
  IF ~(Le(Num(0), T) /\ Le(T, Num(1))) THEN "T value must be between 0 and 1, but got T"
  ELSE IF ~(Le(Num(0), I) /\ Le(I, Num(1))) THEN "I value must be between 0 and 1, but got I"
  ELSE IF ~(Le(Num(0), F) /\ Le(F, Num(1))) THEN "F value must be between 0 and 1, but got F"
  ELSE IF Gt(Add(Add(T, I), F), Num(1))
    THEN "Conservation constraint violated: T + I + F = total > 1.0"
  ELSE ""

(* a validation that throws an error of a class of its own *)
outcomeValidation_named(T, I, F) ==
  [error |-> IF outcomeMessage(T, I, F) = "" THEN "" ELSE "ValidationError",
   msg |-> outcomeMessage(T, I, F)]

(* throw new Error(message): the class of the error and its message *)
outcomeValidation(T, I, F) ==
  [error |-> IF outcomeMessage(T, I, F) = "" THEN "" ELSE "Error",
   msg |-> outcomeMessage(T, I, F)]

(* what createOutcomeJudgment does after its checks, lits being the entry  *)
(* objects of the caller's provenanceChain array                            *)
Recorded(linksToJudgmentId, T, I, F, outcomeType, oracleSource, lits) ==
  LET oracleEntry ==
        PlainEntry(oracleSource, toISOString(now), "Outcome recorded by " \o oracleSource,
                   OracleMeta(outcomeType, linksToJudgmentId))
      es == (entries \o lits) \o <<oracleEntry>>
      provenanceChain == Array([k \in 1..Len(lits) |-> Len(entries) + k])
      updatedProvenance == Append(provenanceChain, Len(es))
      as == (arrays \o <<[elems |-> provenanceChain, frozen |-> FALSE, caller |-> TRUE]>>)
              \o <<[elems |-> updatedProvenance, frozen |-> FALSE, caller |-> TRUE]>>
      tempJudgment == NeutrosophicJudgment(T, I, F, es, as, Len(as))
      judgmentId == JudgmentIdOf(T, I, F, Append(lits, oracleEntry))
  IN  [error |-> IF tempJudgment.msg # "" THEN "Error"
                 ELSE IF ~judgmentId.ok THEN "TypeError" ELSE "",
       msg |-> IF tempJudgment.msg # "" THEN tempJudgment.msg
               ELSE IF ~judgmentId.ok THEN "Converting circular structure to JSON" ELSE "",
       entries |-> es, arrays |-> tempJudgment.arrays,
       outcome |-> [judgment_id |-> judgmentId.id,
                    links_to_judgment_id |-> linksToJudgmentId,
                    T |-> T, I |-> I, F |-> F,
                    outcome_type |-> outcomeType,
                    oracle_source |-> oracleSource,
                    provenance_chain |-> Len(as)]]

(* createOutcomeJudgment(linksToJudgmentId, T, I, F, outcomeType,           *)
(* oracleSource, [e1, ...]); the call is recorded with the three strings as *)
(* js, the caller's entries as chain and, when it returns, outcome          *)
(* "outcome" and the new object's place in outcomes as res                *)
createOutcomeJudgment(linksToJudgmentId, T, I, F, outcomeType, oracleSource, lits) ==
  \E v \in {outcomeValidation(T, I, F)} :
    IF v.error # ""
      THEN Throw("createOutcomeJudgment", v.error, v.msg,
                 <<linksToJudgmentId, outcomeType, oracleSource>>, << >>, T, I, F, lits)
    ELSE \E r \in {Recorded(linksToJudgmentId, T, I, F, outcomeType, oracleSource, lits)} :
      IF r.error # ""
        THEN Throw("createOutcomeJudgment", r.error, r.msg,
                   <<linksToJudgmentId, outcomeType, oracleSource>>, << >>, T, I, F, lits)
      ELSE /\ entries' = r.entries
           /\ arrays' = r.arrays
           /\ outcomes' = Append(outcomes, r.outcome)
           /\ last' = Call("createOutcomeJudgment", "outcome", "", "", Len(outcomes) + 1,
                           <<linksToJudgmentId, outcomeType, oracleSource>>, << >>,
                           T, I, F, lits)
           /\ UNCHANGED <<weightArrays, judgments, now, mappers, registry>>

(* the entries seen through an outcome's provenance_chain *)
OutcomeChain(o) == Array([k \in 1..Len(arrays[o.provenance_chain].elems) |->
                            entries[arrays[o.provenance_chain].elems[k]]])

(* SpecOutcome: on an empty heap the caller makes one call, of              *)
(* createOutcomeJudgment or of the constructor, with degrees of             *)
(* DegreeValues                                                             *)
LinkIds == {"original_judgment_id", "other_judgment_id"}

OracleSources == {"test-oracle", ""}

ExtraProvenance ==
  { << >>, <<sensor1>>, <<cyclic2>>, <<sensor1, sensor2>>,
    <<PlainEntry("", "2023-01-01T00:00:00Z", Undefined, NoMeta)>> }

NextOutcome ==
  \/ last = NoCall /\ \E T \in DegreeValues, I \in DegreeValues, F \in DegreeValues :
       \E linksToJudgmentId \in LinkIds, outcomeType \in OutcomeType :
         \E oracleSource \in OracleSources, lits \in ExtraProvenance :
           createOutcomeJudgment(linksToJudgmentId, T, I, F, outcomeType, oracleSource, lits)
  \/ last = NoCall /\ \E T \in DegreeValues, I \in DegreeValues, F \in DegreeValues :
       Construct(T, I, F, <<sensor1>>)

SpecOutcome == Init /\ [][NextOutcome]_vars


(* ------------------------------------------------- the wall clock moves *)
(* SpecClock: Spec, with time passing between the calls and ids generated  *)
MaxClock == 2

(* time passes: a later new Date() reads a later instant *)
Tick ==
  /\ Running
  /\ now < MaxClock
  /\ now' = now + 1
  /\ UNCHANGED <<entries, arrays, weightArrays, judgments, outcomes, mappers, registry, last>>

NextClock ==
  \/ Next
  \/ Tick
  \/ Running /\ \E j \in 1..Len(judgments) : CallGenerateJudgmentId(j)

SpecClock == Init /\ [][NextClock]_vars

(* ---------------------------------------------------------------- mappers *)
(* Math.abs(x); Math.min(a, b) and Math.max(a, b) are MathMin and MathMax  *)
MathAbs(x) == IF IsNaN(x) THEN NaN ELSE Frac(Abs(x.n), x.d)

(* x >= y *)
Ge(x, y) == Le(y, x)

(* String(x) of the numbers the callers of the model pass *)
StringOf(x) ==
  CASE IsNaN(x) -> "NaN"
    [] x = Num(0) -> "0"
    [] x = Frac(1, 2) -> "0.5"
    [] x = Num(1) -> "1"
    [] x = Frac(3, 2) -> "1.5"
    [] x = Num(2) -> "2"
    [] x = Num(3) -> "3"
    [] OTHER -> "number"

(* NumericalParams; clamp_to_range is "true", "false" or Undefined *)
NumericalParams(id, version, falsity_point, indeterminacy_point, truth_point, clamp_to_range) ==
  [id |-> id, version |-> version, falsity_point |-> falsity_point,
   indeterminacy_point |-> indeterminacy_point, truth_point |-> truth_point,
   clamp_to_range |-> clamp_to_range]

(* NumericalMapper.validate(): "" when it returns true, else the message of *)
(* the ValidationError; a Set keeps one of several equal points            *)
validateMapper(parameters) ==
  IF Cardinality({parameters.falsity_point, parameters.indeterminacy_point,
                  parameters.truth_point}) < 3
    THEN "falsity_point, indeterminacy_point, and truth_point must be distinct for NumericalMapper"
  ELSE ""

(* this.parameters = { ...params, clamp_to_range: params.clamp_to_range ?? true } *)
MapperObject(params) ==
  [mapper_type |-> "numerical",
   parameters |-> [params EXCEPT !.clamp_to_range =
                     IF params.clamp_to_range = Undefined THEN "true" ELSE @]]

(* [...].sort((a, b) => a.value - b.value): p goes after the elements that *)
(* are not greater                                                          *)
RECURSIVE InsertPoint(_, _)
InsertPoint(sorted, p) ==
  IF sorted = << >> THEN <<p>>
  ELSE IF Gt(Sub(sorted[Len(sorted)].value, p.value), Num(0))
    THEN Append(InsertPoint(SubSeq(sorted, 1, Len(sorted) - 1), p), sorted[Len(sorted)])
  ELSE Append(sorted, p)

points_sorted(parameters) ==
  InsertPoint(InsertPoint(<<[value |-> parameters.falsity_point, type |-> "F"]>>,
                          [value |-> parameters.indeterminacy_point, type |-> "I"]),
              [value |-> parameters.truth_point, type |-> "T"])

(* the judgment with all the mass on one degree *)
Pure(type) ==
  [T |-> IF type = "T" THEN Num(1) ELSE Num(0),
   I |-> IF type = "I" THEN Num(1) ELSE Num(0),
   F |-> IF type = "F" THEN Num(1) ELSE Num(0)]

Nothing == [T |-> Num(0), I |-> Num(0), F |-> Num(0)]

isInSegment(value, start, end) ==
  Ge(value, MathMin(<<start, end>>)) /\ Le(value, MathMax(<<start, end>>))

(* Math.abs(input_value - from) / Math.abs(to - from) *)
Ratio(input_value, from, to) ==
  Div(MathAbs(Sub(input_value, from)), MathAbs(Sub(to, from)))

(* the zones between the points: falsity <-> indeterminacy first, then     *)
(* indeterminacy <-> truth, else the value other                           *)
Zones(input_value, f, i, t, other) ==
  IF isInSegment(input_value, f, i) /\ ~StrictEq(f, i)
    THEN [T |-> Num(0), I |-> Ratio(input_value, f, i),
          F |-> Sub(Num(1), Ratio(input_value, f, i))]
  ELSE IF isInSegment(input_value, i, t) /\ ~StrictEq(i, t)
    THEN [T |-> Ratio(input_value, i, t),
          I |-> Sub(Num(1), Ratio(input_value, i, t)), F |-> Num(0)]
  ELSE other

(* the last branch of each progression *)
OnEdge(input_value, f, i, t) ==
  IF (StrictEq(f, i) /\ StrictEq(input_value, f)) \/ (StrictEq(i, t) /\ StrictEq(input_value, i))
       \/ (StrictEq(f, t) /\ StrictEq(input_value, f))
    THEN Pure("I") ELSE Nothing

OnPoint(input_value, f, i, t) ==
  IF StrictEq(input_value, f) THEN Pure("F")
  ELSE IF StrictEq(input_value, i) THEN Pure("I")
  ELSE IF StrictEq(input_value, t) THEN Pure("T")
  ELSE Nothing

(* calculateInterpolation(input_value) before its validation, sorted being *)
(* points_sorted                                                            *)
Interpolated(input_value, f, i, t, sorted) ==
  IF Le(input_value, sorted[1].value) THEN Pure(sorted[1].type)
  ELSE IF Ge(input_value, sorted[3].value) THEN Pure(sorted[3].type)
  ELSE IF (Le(f, i) /\ Le(i, t)) \/ (Ge(f, i) /\ Ge(i, t))
    THEN Zones(input_value, f, i, t, OnEdge(input_value, f, i, t))
  ELSE Zones(input_value, f, i, t, OnPoint(input_value, f, i, t))

(* validateJudgmentValues(t, i, f): "" or the message of the ValidationError *)
validateJudgmentValues(t, i, f) ==
  IF Lt(t, Num(0)) \/ Gt(t, Num(1)) THEN "T value must be between 0 and 1, got t"
  ELSE IF Lt(i, Num(0)) \/ Gt(i, Num(1)) THEN "I value must be between 0 and 1, got i"
  ELSE IF Lt(f, Num(0)) \/ Gt(f, Num(1)) THEN "F value must be between 0 and 1, got f"
  ELSE IF Gt(Add(Add(t, i), f), Num(1))
    THEN "Conservation constraint violated: T + I + F = sum > 1.0"
  ELSE ""

calculateInterpolation(parameters, input_value) ==
  Interpolated(input_value, parameters.falsity_point, parameters.indeterminacy_point,
               parameters.truth_point, points_sorted(parameters))

(* the value apply interpolates at: the input, clamped when clamp_to_range *)
Clamped(parameters, input_value) ==
  IF parameters.clamp_to_range = "true"
    THEN MathMax(<<MathMin(<<parameters.falsity_point, parameters.truth_point>>),
                   MathMin(<<MathMax(<<parameters.falsity_point, parameters.truth_point>>),
                             input_value>>)>>)
    ELSE input_value

(* input_value < min_point || input_value > max_point, without clamping *)
OutOfRange(parameters, input_value) ==
  /\ parameters.clamp_to_range # "true"
  /\ \/ Lt(input_value, MathMin(<<parameters.falsity_point, parameters.truth_point>>))
     \/ Gt(input_value, MathMax(<<parameters.falsity_point, parameters.truth_point>>))

(* createProvenanceEntry(input_value) *)
createProvenanceEntry(parameters, input_value) ==
  PlainEntry(parameters.id, toISOString(now), "Mapper transformation using " \o parameters.id,
             [Meta("mapper", parameters.version, 0, 0) EXCEPT !.link = StringOf(input_value)])

(* apply(input_value) of a NumericalMapper: the error it throws, or the    *)
(* degrees and the heap with the judgment it constructs                     *)
Applied(parameters, input_value) ==
  IF input_value = NotANumber
    THEN [error |-> "InputError", msg |-> "Input for NumericalMapper must be a number"]
  ELSE IF OutOfRange(parameters, input_value)
    THEN [error |-> "InputError",
          msg |-> "Input value is out of the defined mapper range and clamp_to_range is False"]
  ELSE LET d == calculateInterpolation(parameters, Clamped(parameters, input_value))
           v == validateJudgmentValues(d.T, d.I, d.F)
           c == Constructed(d.T, d.I, d.F, <<createProvenanceEntry(parameters, input_value)>>)
       IN  IF v # "" THEN [error |-> "ValidationError", msg |-> v]
           ELSE IF c.msg # "" THEN [error |-> "Error", msg |-> c.msg]
           ELSE [error |-> "", msg |-> "", T |-> d.T, I |-> d.I, F |-> d.F,
                 entries |-> c.entries, arrays |-> c.arrays, judgment |-> c.judgment]

(* const m = new NumericalMapper(params) *)
NewNumericalMapper(params) ==
  IF validateMapper(MapperObject(params).parameters) # ""
    THEN /\ last' = Call("NumericalMapper", "throw", "ValidationError",
                         validateMapper(MapperObject(params).parameters), 0,
                         << >>, << >>, params.truth_point, params.indeterminacy_point,
                         params.falsity_point, << >>)
         /\ UNCHANGED <<entries, arrays, weightArrays, judgments, now, outcomes, mappers, registry>>
    ELSE /\ mappers' = Append(mappers, MapperObject(params))
         /\ last' = Call("NumericalMapper", "ok", "", "", 0, <<Len(mappers) + 1>>, << >>,
                         params.truth_point, params.indeterminacy_point,
                         params.falsity_point, << >>)
         /\ UNCHANGED <<entries, arrays, weightArrays, judgments, now, outcomes, registry>>

(* mappers[m].apply(input_value); the call is recorded with the mapper as  *)
(* js and the input as ws                                                   *)
apply(m, input_value) ==
  \E r \in {Applied(mappers[m].parameters, input_value)} :
    IF r.error # ""
      THEN Throw("apply", r.error, r.msg, <<m>>, <<input_value>>, NaN, NaN, NaN, << >>)
    ELSE /\ entries' = r.entries
         /\ arrays' = r.arrays
         /\ judgments' = Append(judgments, r.judgment)
         /\ last' = Call("apply", "ok", "", "", Len(judgments) + 1, <<m>>, <<input_value>>,
                         r.T, r.I, r.F, << >>)
         /\ UNCHANGED <<weightArrays, now, outcomes, mappers, registry>>

(* SpecMapper: the caller builds one mapper from these points, in every    *)
(* order and with points that coincide, and applies it to these inputs     *)
PointValues == { Num(0), Num(1), Num(2) }

MapperInputs == { Num(0), Frac(1, 2), Num(1), Frac(3, 2), Num(2), Num(3), NaN, NotANumber }

NextMapper ==
  \/ /\ last = NoCall
     /\ \E f \in PointValues, i \in PointValues, t \in PointValues :
          \E clamp \in {"true", "false", Undefined} :
            NewNumericalMapper(NumericalParams("mapper1", "1.0.0", f, i, t, clamp))
  \/ /\ CanAllocate
     /\ \E m \in 1..Len(mappers) : \E x \in MapperInputs : apply(m, x)

SpecMapper == Init /\ [][NextMapper]_vars

(* --------------------------------------------------------- MapperRegistry *)
(* Map.has(id), Map.get(id) (0: undefined), Map.delete(id) and Map.set on   *)
(* the Map kept as the sequence of its [id, mapper] entries                *)
MapHas(map, id) == \E k \in 1..Len(map) : map[k].id = id

MapGet(map, id) ==
  IF MapHas(map, id) THEN map[CHOOSE k \in 1..Len(map) : map[k].id = id].mapper ELSE 0

MapDelete(map, id) == SelectSeq(map, LAMBDA e : e.id # id)

(* a set that adds an entry whether or not the key is there *)
MapSet_append(map, id, mapper) == Append(map, [id |-> id, mapper |-> mapper])

(* Map.set(id, mapper): the value of an existing key is replaced in place *)
MapSet(map, id, mapper) ==
  IF MapHas(map, id)
    THEN Array([k \in 1..Len(map) |-> IF map[k].id = id THEN [id |-> id, mapper |-> mapper]
                                                         ELSE map[k]])
    ELSE Append(map, [id |-> id, mapper |-> mapper])

(* a call of the registry that returns: res is what get and count return   *)
Returned(op, outcome, res, arg) ==
  Call(op, outcome, "", "", res, <<arg>>, << >>, NaN, NaN, NaN, << >>)

(* a call of the registry that throws a ValidationError *)
Refused(op, msg, arg) ==
  Call(op, "throw", "ValidationError", msg, 0, <<arg>>, << >>, NaN, NaN, NaN, << >>)

Heap == <<entries, arrays, weightArrays, judgments, now, outcomes, mappers>>

(* registry.register(mapper), mapper being the object m *)
register(m) ==
  /\ IF MapHas(registry, mappers[m].parameters.id)
       THEN /\ last' = Refused("register", "Mapper with ID is already registered", m)
            /\ UNCHANGED registry
     ELSE IF validateMapper(mappers[m].parameters) # ""
       THEN /\ last' = Refused("register", validateMapper(mappers[m].parameters), m)
            /\ UNCHANGED registry
     ELSE /\ registry' = MapSet(registry, mappers[m].parameters.id, m)
          /\ last' = Returned("register", "ok", 0, m)
  /\ UNCHANGED Heap

(* registry.update(mapper) *)
update(m) ==
  /\ IF ~MapHas(registry, mappers[m].parameters.id)
       THEN /\ last' = Refused("update", "Mapper with ID is not registered", m)
            /\ UNCHANGED registry
     ELSE IF validateMapper(mappers[m].parameters) # ""
       THEN /\ last' = Refused("update", validateMapper(mappers[m].parameters), m)
            /\ UNCHANGED registry
     ELSE /\ registry' = MapSet(registry, mappers[m].parameters.id, m)
          /\ last' = Returned("update", "ok", 0, m)
  /\ UNCHANGED Heap

(* registry.registerOrUpdate(mapper) *)
registerOrUpdate(m) ==
  /\ IF validateMapper(mappers[m].parameters) # ""
       THEN /\ last' = Refused("registerOrUpdate", validateMapper(mappers[m].parameters), m)
            /\ UNCHANGED registry
     ELSE /\ registry' = MapSet(registry, mappers[m].parameters.id, m)
          /\ last' = Returned("registerOrUpdate", "ok", 0, m)
  /\ UNCHANGED Heap

(* registry.unregister(id): what Map.delete returns *)
unregister(id) ==
  /\ registry' = MapDelete(registry, id)
  /\ last' = Returned("unregister", IF MapHas(registry, id) THEN "true" ELSE "false", 0, id)
  /\ UNCHANGED Heap

(* registry.clear() *)
clear ==
  /\ registry' = << >>
  /\ last' = Call("clear", "ok", "", "", 0, << >>, << >>, NaN, NaN, NaN, << >>)
  /\ UNCHANGED Heap

(* registry.get(id) *)
get(id) ==
  /\ last' = Returned("get", "ok", MapGet(registry, id), id)
  /\ UNCHANGED registry
  /\ UNCHANGED Heap

(* registry.count() *)
count ==
  /\ last' = Call("count", "ok", "", "", Len(registry), << >>, << >>, NaN, NaN, NaN, << >>)
  /\ UNCHANGED registry
  /\ UNCHANGED Heap

(* SpecRegistry: the caller holds four mappers: two with the id mapper1,   *)
(* one with the id mapper2, and one with the id mapper2 whose truth_point   *)
(* it has set to the falsity_point since the construction; it calls the    *)
(* registry in any order and catches what is thrown                        *)
MapperPool ==
  << MapperObject(NumericalParams("mapper1", "1.0.0", Num(0), Num(1), Num(2), Undefined)),
     MapperObject(NumericalParams("mapper1", "2.0.0", Num(2), Num(1), Num(0), Undefined)),
     MapperObject(NumericalParams("mapper2", "1.0.0", Num(0), Num(1), Num(2), Undefined)),
     [MapperObject(NumericalParams("mapper2", "1.0.0", Num(0), Num(1), Num(2), Undefined))
        EXCEPT !.parameters.truth_point = Num(0)] >>

RegistryIds == {"mapper1", "mapper2", "non-existent"}

InitRegistry ==
  /\ entries = << >>
  /\ arrays = << >>
  /\ weightArrays = << >>
  /\ judgments = << >>
  /\ now = 0
  /\ outcomes = << >>
  /\ mappers = MapperPool
  /\ registry = << >>
  /\ last = NoCall

NextRegistry ==
  \/ \E m \in 1..Len(mappers) : register(m)
  \/ \E m \in 1..Len(mappers) : update(m)
  \/ \E m \in 1..Len(mappers) : registerOrUpdate(m)
  \/ \E id \in RegistryIds : unregister(id)
  \/ clear
  \/ \E id \in RegistryIds : get(id)
  \/ count

SpecRegistry == InitRegistry /\ [][NextRegistry]_vars

(* ------------------------------------ verifying what the callers produce *)
(* SpecVerify: a pool that leaves room for a fusion and for the copy       *)
(* ensureJudgmentId makes; the pool or a prefix of it is fused once, ids   *)
(* are ensured, and any judgment is verified against pool judgments        *)
VerifyPoolSize == MaxJudgments - 2

InitVerify ==
  /\ \E vs \in [1..VerifyPoolSize -> IdentityPool] :
       /\ entries = [k \in 1..VerifyPoolSize |-> vs[k][4]]
       /\ judgments = [k \in 1..VerifyPoolSize |->
                        [T |-> vs[k][1], I |-> vs[k][2], F |-> vs[k][3], provenance_chain |-> k]]
  /\ arrays = [k \in 1..VerifyPoolSize |-> FrozenCopy(<<k>>)]
  /\ weightArrays = << >>
  /\ now = 0
  /\ outcomes = << >>
  /\ mappers = << >>
  /\ registry = << >>
  /\ last = NoCall

VerifyLists == { [k \in 1..n |-> k] : n \in 1..VerifyPoolSize }

VerifySupplied == { js \in SeqsUpTo(1..VerifyPoolSize, VerifyPoolSize) : Injective(js) }

NextVerify ==
  \/ last = NoCall /\ \E js \in VerifyLists : \E ws \in SealWeightLists(Len(js)) :
       conflict_aware_weighted_average(js, ws)
  \/ last = NoCall /\ \E js \in VerifyLists : optimistic_fusion(js)
  \/ last = NoCall /\ \E js \in VerifyLists : pessimistic_fusion(js)
  \/ Running /\ \E j \in 1..Len(judgments) : ensureJudgmentId(j)
  \/ Running /\ \E f \in 1..Len(judgments) : \E js \in VerifySupplied :
       \E ws \in SuppliedWeightLists(Len(js)) : verifyConformanceSealWithInputs(f, js, ws)

SpecVerify == InitVerify /\ [][NextVerify]_vars

(* ------------------------------------- both operators on the same list *)
(* half of Number.EPSILON: the largest x for which 1 + x is 1 *)
HalfEpsilon == Frac(1, Pow2(MantissaBits))

(* the degrees of SpecFusion, and two judgments the constructor accepts     *)
(* because T + I + F is rounded to 1                                         *)
CompareDegrees ==
  { d \in PoolDegrees \cup
          { <<Num(0), HalfEpsilon, Num(1)>>,
            <<Num(0), Add(HalfEpsilon, HalfEpsilon), Sub(Num(1), HalfEpsilon)>> } :
      validate(d[1], d[2], d[3], <<sensor1>>) = "" }

InitCompare ==
  /\ entries = [k \in 1..PoolSize |-> PoolEntry(k)]
  /\ arrays = [k \in 1..PoolSize |-> FrozenCopy(<<k>>)]
  /\ weightArrays = << >>
  /\ \E ts \in [1..PoolSize -> CompareDegrees] :
       judgments = [k \in 1..PoolSize |->
                     [T |-> ts[k][1], I |-> ts[k][2], F |-> ts[k][3], provenance_chain |-> k]]
  /\ now = 0
  /\ outcomes = << >>
  /\ mappers = << >>
  /\ registry = << >>
  /\ last = NoCall

(* SpecCompare: a pool of PoolSize judgments; a list of it is fused by     *)
(* optimistic_fusion and then by pessimistic_fusion, or the other way round *)
CompareLists == { [k \in 1..n |-> k] : n \in 1..PoolSize }

NextCompare ==
  \/ last = NoCall /\ \E js \in CompareLists : optimistic_fusion(js)
  \/ last = NoCall /\ \E js \in CompareLists : pessimistic_fusion(js)
  \/ last.op = "optimistic_fusion" /\ Running /\ Len(judgments) = PoolSize + 1
       /\ pessimistic_fusion(last.js)
  \/ last.op = "pessimistic_fusion" /\ Running /\ Len(judgments) = PoolSize + 1
       /\ optimistic_fusion(last.js)

SpecCompare == InitCompare /\ [][NextCompare]_vars

(* ================================================================ claims *)
(* 0 <= x <= 1 in JavaScript arithmetic; false for NaN *)
InUnit(x) == Le(Num(0), x) /\ Le(x, Num(1))

(* some entry lacks a non-empty string source_id or timestamp *)
LacksField(chain) ==
  \E k \in 1..Len(chain) : Falsy(chain[k].source_id) \/ Falsy(chain[k].timestamp)

(* the conditions under which construction has to fail *)
MustReject(T, I, F, chain) ==
  \/ ~InUnit(T) \/ ~InUnit(I) \/ ~InUnit(F)
  \/ Gt(Add(Add(T, I), F), Num(1))
  \/ Len(chain) = 0
  \/ LacksField(chain)

FusionOps == {"conflict_aware_weighted_average", "optimistic_fusion", "pessimistic_fusion"}

(* C1: a construction fails and creates no judgment if and only if a degree *)
(* is outside [0,1], or T+I+F > 1, or the chain is empty, or an entry lacks *)
(* a non-empty source_id or timestamp; otherwise it returns a judgment with *)
(* exactly the given degrees and the given entries in the given order.      *)
C1_Claim ==
  [][last'.op = "construct" =>
       IF MustReject(last'.T, last'.I, last'.F, last'.chain)
         THEN last'.outcome = "throw" /\ judgments' = judgments
         ELSE /\ last'.outcome = "ok"
              /\ Len(judgments') = Len(judgments) + 1
              /\ last'.res = Len(judgments')
              /\ judgments'[last'.res].T = last'.T
              /\ judgments'[last'.res].I = last'.I
              /\ judgments'[last'.res].F = last'.F
              /\ Chain(judgments[last.res])' = last'.chain]_vars

(* C1, where it fails: a construction with a NaN degree has returned *)
C1_NaNAccepted ==
  /\ last.op = "construct"
  /\ last.outcome = "ok"
  /\ IsNaN(last.T) \/ IsNaN(last.I) \/ IsNaN(last.F)

(* the invariants of a judgment *)
WellFormed(j) ==
  /\ InUnit(j.T) /\ InUnit(j.I) /\ InUnit(j.F)
  /\ Le(Add(Add(j.T, j.I), j.F), Num(1))
  /\ Len(Chain(j)) > 0
  /\ ~LacksField(Chain(j))

(* C2: every judgment that exists satisfies 0 <= T, I, F <= 1, T+I+F <= 1,  *)
(* and has a non-empty chain whose entries all have a non-empty source_id   *)
(* and timestamp.                                                           *)
C2_Claim == \A j \in 1..Len(judgments) : WellFormed(judgments[j])

(* C2, where it fails: a judgment exists one of whose degrees is NaN *)
C2_NaNJudgment ==
  \E j \in 1..Len(judgments) :
    IsNaN(judgments[j].T) \/ IsNaN(judgments[j].I) \/ IsNaN(judgments[j].F)

(* what is read through judgment j's provenance_chain: the entries, and for *)
(* metadata that holds a weights array the numbers in it                    *)
Observed(j) ==
  [k \in 1..Len(Chain(judgments[j])) |->
     <<Chain(judgments[j])[k],
       IF Chain(judgments[j])[k].metadata.weights = 0 THEN << >>
       ELSE weightArrays[Chain(judgments[j])[k].metadata.weights].elems>>]

CallerMutations == {"MutateEntry", "PushToArray", "PushToChain", "MutateWeights"}

(* C3: no mutation by the caller of what it passed in (the provenance       *)
(* array, the entry objects or their metadata, the weights array) changes   *)
(* what is observed through the provenance_chain of a judgment that exists, *)
(* and the chain cannot be appended to.                                     *)
C3_Claim ==
  [][last'.op \in CallerMutations =>
       \A j \in 1..Len(judgments) : Observed(j)' = Observed(j)]_vars

(* C3, where it fails: the caller has edited an entry object it passed in,  *)
(* and a judgment constructed before shows the edit                         *)
C3_EditObserved ==
  /\ last.op = "MutateEntry"
  /\ \E j \in 1..Len(judgments) : \E k \in 1..Len(Chain(judgments[j])) :
       /\ ChainRefs(judgments[j])[k] = last.res
       /\ "edited" \in {Chain(judgments[j])[k].description, Chain(judgments[j])[k].metadata.note}

(* the inputs every fusion operator has to reject, and those                *)
(* conflict_aware_weighted_average has to reject in addition                *)
BadJudgments(js) == Len(js) = 0 \/ \E k \in 1..Len(js) : js[k] = 0

BadWeights(js, ws) == Len(ws) # Len(js) \/ \E k \in 1..Len(ws) : ~IsNumeric(ws[k])

(* C4: each fusion operator fails, returning no judgment, when the list is  *)
(* empty or holds an element that is no judgment;                           *)
(* conflict_aware_weighted_average fails also when the weights list has     *)
(* another length than the judgment list or holds a non-numeric weight.     *)
C4_Rejects ==
  [][(/\ last'.op \in FusionOps
      /\ \/ BadJudgments(last'.js)
         \/ last'.op = "conflict_aware_weighted_average" /\ BadWeights(last'.js, last'.ws))
     => (last'.outcome = "throw" /\ judgments' = judgments)]_vars

(* C4 happens: conflict_aware_weighted_average has failed on a non-numeric  *)
(* weight in a list of the right length for valid judgments                 *)
C4_Witness ==
  /\ last.op = "conflict_aware_weighted_average"
  /\ last.outcome = "throw"
  /\ ~BadJudgments(last.js)
  /\ Len(last.ws) = Len(last.js)
  /\ \E k \in 1..Len(last.ws) : ~IsNumeric(last.ws[k])

(* the judgments a fusion call was given, and their degrees *)
Inputs(call) == Array([k \in 1..Len(call.js) |-> judgments[call.js[k]]])

(* a fusion call whose arguments pass the checks of C4 *)
Accepted(call) ==
  /\ call.op \in FusionOps
  /\ ~BadJudgments(call.js)
  /\ call.op = "conflict_aware_weighted_average" => ~BadWeights(call.js, call.ws)

(* xs[1] + ... + xs[n], added from the left *)
RECURSIVE Sum(_, _)
Sum(xs, n) == IF n = 0 THEN Num(0) ELSE Add(Sum(xs, n - 1), xs[n])

(* the arithmetic mean of xs *)
Mean(xs) == Div(Sum(xs, Len(xs)), Num(Len(xs)))

(* C5: conflict_aware_weighted_average computes adjusted weights            *)
(* a_i = w_i * (1 - T_i*F_i); if their sum is exactly zero the output       *)
(* degrees are the unweighted means of the inputs' T, I and F, otherwise    *)
(* each output degree is sum(degree_i * a_i) / sum(a_i).                    *)
C5_Degrees ==
  (Accepted(last) /\ last.op = "conflict_aware_weighted_average") =>
    LET J == Inputs(last)
        n == Len(J)
        a == Array([i \in 1..n |-> Mul(last.ws[i], Sub(Num(1), Mul(J[i].T, J[i].F)))])
        total == Sum(a, n)
        Ts == Array([i \in 1..n |-> J[i].T])
        Is == Array([i \in 1..n |-> J[i].I])
        Fs == Array([i \in 1..n |-> J[i].F])
    IN  IF StrictEq(total, Num(0))
          THEN /\ last.T = Mean(Ts)
               /\ last.I = Mean(Is)
               /\ last.F = Mean(Fs)
          ELSE /\ last.T = Div(Sum(Array([i \in 1..n |-> Mul(Ts[i], a[i])]), n), total)
               /\ last.I = Div(Sum(Array([i \in 1..n |-> Mul(Is[i], a[i])]), n), total)
               /\ last.F = Div(Sum(Array([i \in 1..n |-> Mul(Fs[i], a[i])]), n), total)

(* C5 happens: conflict_aware_weighted_average has returned for two inputs  *)
(* with different weights, one of them in conflict with itself (T*F > 0)    *)
C5_Witness ==
  /\ last.op = "conflict_aware_weighted_average"
  /\ last.outcome = "ok"
  /\ Len(last.js) = 2
  /\ last.ws[1] # last.ws[2]
  /\ \E i \in 1..2 : Gt(Mul(Inputs(last)[i].T, Inputs(last)[i].F), Num(0))

(* C6: for every non-empty list of valid judgments and every list of        *)
(* numeric weights of the same length, conflict_aware_weighted_average      *)
(* succeeds, and its degrees are each in [0,1] with T+I+F <= 1.             *)
C6_Claim ==
  (/\ Accepted(last)
   /\ last.op = "conflict_aware_weighted_average"
   /\ \A i \in 1..Len(last.js) : WellFormed(judgments[last.js[i]]))
  => /\ last.outcome = "ok"
     /\ InUnit(last.T) /\ InUnit(last.I) /\ InUnit(last.F)
     /\ Le(Add(Add(last.T, last.I), last.F), Num(1))

(* C6, where it fails: with valid judgments and positive weights the        *)
(* rounded degrees add up to more than 1 and the constructor throws         *)
C6_RoundedOver ==
  /\ Accepted(last)
  /\ last.op = "conflict_aware_weighted_average"
  /\ \A i \in 1..Len(last.js) : WellFormed(judgments[last.js[i]])
  /\ \A i \in 1..Len(last.ws) : Gt(last.ws[i], Num(0))
  /\ last.outcome = "throw"
  /\ last.msg = "Conservation constraint violated"

(* C7: optimistic_fusion yields T = max T, F = min F, I = mean I, and        *)
(* pessimistic_fusion T = min T, F = max F, I = mean I; when that T+I+F      *)
(* exceeds 1 all three are divided by their sum and the final sum is         *)
(* exactly 1, otherwise they are returned unchanged.                         *)
C7_Claim ==
  (Accepted(last) /\ last.op \in {"optimistic_fusion", "pessimistic_fusion"}) =>
    LET J == Inputs(last)
        n == Len(J)
        Ts == Array([i \in 1..n |-> J[i].T])
        Fs == Array([i \in 1..n |-> J[i].F])
        t == IF last.op = "optimistic_fusion" THEN MathMax(Ts) ELSE MathMin(Ts)
        f == IF last.op = "optimistic_fusion" THEN MathMin(Fs) ELSE MathMax(Fs)
        i == Mean(Array([k \in 1..n |-> J[k].I]))
        total == Add(Add(t, i), f)
    IN  /\ last.outcome = "ok"
        /\ IF Gt(total, Num(1))
             THEN /\ last.T = Div(t, total)
                  /\ last.I = Div(i, total)
                  /\ last.F = Div(f, total)
                  /\ StrictEq(Add(Add(last.T, last.I), last.F), Num(1))
             ELSE last.T = t /\ last.I = i /\ last.F = f

(* C7, where it fails: optimistic_fusion has divided by the sum, the        *)
(* rounded quotients add up to more than 1 and the constructor throws       *)
C7_RescaledOver ==
  /\ Accepted(last)
  /\ last.op = "optimistic_fusion"
  /\ \A i \in 1..Len(last.js) : WellFormed(judgments[last.js[i]])
  /\ last.outcome = "throw"
  /\ last.msg = "Conservation constraint violated"

(* the operator id of a fusion operator *)
OperatorId(op) ==
  CASE op = "conflict_aware_weighted_average" -> "otp-cawa-v1.1"
    [] op = "optimistic_fusion" -> "otp-optimistic-v1.1"
    [] op = "pessimistic_fusion" -> "otp-pessimistic-v1.1"

(* the sequences of ss one after the other *)
RECURSIVE Flatten(_)
Flatten(ss) == IF ss = << >> THEN << >> ELSE Head(ss) \o Flatten(Tail(ss))

(* C8: the chain of the judgment a fusion operator returns is the           *)
(* concatenation of the inputs' chains in input order followed by exactly   *)
(* one new trailing entry whose source_id is the operator id; its length is *)
(* the sum of the input chain lengths plus one.                             *)
C8_Chain ==
  (last.op \in FusionOps /\ last.outcome = "ok") =>
    LET refs == ChainRefs(judgments[last.res])
        n == Len(refs)
        inputRefs == Flatten(Array([k \in 1..Len(last.js) |-> ChainRefs(judgments[last.js[k]])]))
    IN  /\ n = Len(inputRefs) + 1
        /\ SubSeq(refs, 1, n - 1) = inputRefs
        /\ \A k \in 1..(n - 1) : refs[k] # refs[n]
        /\ entries[refs[n]].source_id = OperatorId(last.op)

(* C8 happens: a fusion operator has returned for two inputs, the first of  *)
(* them a fused judgment with a chain of several entries                    *)
C8_Witness ==
  /\ last.op \in FusionOps
  /\ last.outcome = "ok"
  /\ Len(last.js) = 2
  /\ Len(ChainRefs(judgments[last.js[1]])) >= 2
  /\ ChainRefs(judgments[last.js[1]]) # ChainRefs(judgments[last.js[2]])

(* C9: the judgment a fusion operator returns carries a judgment_id in its  *)
(* provenance chain.                                                        *)
C9_Claim ==
  (last.op \in FusionOps /\ last.outcome = "ok") =>
    \E k \in 1..Len(Chain(judgments[last.res])) : HasJudgmentId(Chain(judgments[last.res])[k])

(* C9, where it fails: a fusion operator has returned a judgment none of    *)
(* whose entries has a judgment_id                                          *)
C9_NoJudgmentId ==
  /\ last.op \in FusionOps
  /\ last.outcome = "ok"
  /\ \A k \in 1..Len(Chain(judgments[last.res])) : ~HasJudgmentId(Chain(judgments[last.res])[k])

(* the weights W of a fusion call: all 1.0 for the two operators without    *)
(* weights                                                                  *)
W(call) ==
  IF call.op = "conflict_aware_weighted_average" THEN call.ws
  ELSE Array([k \in 1..Len(call.js) |-> Num(1)])

(* verifyConformanceSealWithInputs(fused, J, W) right after the fusion *)
RoundTrip == verifyWithInputs(judgments[last.res], Inputs(last), W(last))

(* C10, as stated: for every fused judgment returned by a fusion operator   *)
(* on inputs J with weights W, verifyConformanceSealWithInputs(fused, J, W) *)
(* returns true.                                                            *)
C10_Original ==
  (last.op \in FusionOps /\ last.outcome = "ok") => RoundTrip = "true"

(* C10, amended: it returns true when the provenance of every input can be  *)
(* serialised; when that of some input cannot, the fused judgment carries   *)
(* the empty seal and the verification throws a ConformanceError.           *)
C10_RoundTrip ==
  (last.op \in FusionOps /\ last.outcome = "ok") =>
    IF \A k \in 1..Len(last.js) : ChainSerialisable(judgments[last.js[k]])
      THEN RoundTrip = "true"
      ELSE /\ Chain(judgments[last.res])[Len(Chain(judgments[last.res]))].conformance_seal = Str(<< >>)
           /\ RoundTrip = "throw"

(* C10 happens: conflict_aware_weighted_average has returned for two        *)
(* serialisable inputs with different weights, and its entry holds a seal   *)
C10_Witness ==
  /\ last.op = "conflict_aware_weighted_average"
  /\ last.outcome = "ok"
  /\ Len(last.js) = 2
  /\ last.ws[1] # last.ws[2]
  /\ \A k \in 1..2 : ChainSerialisable(judgments[last.js[k]])
  /\ Chain(judgments[last.res])[Len(Chain(judgments[last.res]))].conformance_seal.s # << >>

(* the calls that seal a judgment, and the weights their seal is over *)
SealingOps == FusionOps \cup {"SealAndAttach"}

SealedWeights(call) ==
  IF call.op \in {"optimistic_fusion", "pessimistic_fusion"}
    THEN Array([k \in 1..Len(call.js) |-> Num(1)])
    ELSE call.ws

(* what an input and its weight hold: the degrees, every field of every     *)
(* provenance entry, the weight                                             *)
Content(j, w) == <<judgments[j].T, judgments[j].I, judgments[j].F, Chain(judgments[j]), w>>

(* the same judgments with the same weights, in whatever order *)
SamePairs(J, ws, J2, ws2) ==
  /\ Len(J) = Len(ws) /\ Len(J2) = Len(ws2) /\ Len(J) = Len(J2)
  /\ \E p \in Permutations(1..Len(J)) :
       \A k \in 1..Len(J) : Content(J[k], ws[k]) = Content(J2[p[k]], ws2[p[k]])

(* the stored seal of judgment j: the conformance_seal of its last entry *)
StoredSeal(j) == Chain(judgments[j])[Len(Chain(judgments[j]))].conformance_seal

(* C11: given a fused judgment whose seal was generated from inputs J,      *)
(* weights W and its operator id, verifyConformanceSealWithInputs with      *)
(* inputs or weights that differ from J, W in an input degree, in the       *)
(* provenance content of an input, in a weight or in the set of judgments   *)
(* returns false.                                                           *)
C11_Claim ==
  [][(/\ last.op \in SealingOps
      /\ last.outcome = "ok"
      /\ ~Empty(StoredSeal(last.res))
      /\ last'.op = "verifyConformanceSealWithInputs"
      /\ last'.res = last.res
      /\ ~SamePairs(last.js, SealedWeights(last), last'.js, last'.ws))
     => last'.outcome = "false"]_vars

(* the provenance entries of the inputs supplied to a verification *)
SuppliedEntries(call) ==
  Flatten(Array([k \in 1..Len(call.js) |-> Chain(judgments[call.js[k]])]))

(* C11, where it fails: the verification of a judgment a fusion operator    *)
(* returned has answered true for supplied inputs whose provenance entries  *)
(* hold an entry that is none of those the fused chain took over from the   *)
(* sealed inputs                                                            *)
C11_TamperAccepted ==
  /\ last.op = "verifyConformanceSealWithInputs"
  /\ last.outcome = "true"
  /\ Chain(judgments[last.res])[Len(Chain(judgments[last.res]))].source_id
       \in {OperatorId(op) : op \in FusionOps}
  /\ Len(Chain(judgments[last.res])) = Len(SuppliedEntries(last)) + 1
  /\ \E k \in 1..Len(SuppliedEntries(last)) :
       \A m \in 1..Len(Chain(judgments[last.res])) :
         SuppliedEntries(last)[k] # Chain(judgments[last.res])[m]

(* the fusion operator an operator id names *)
OperatorNamed(source_id) == CHOOSE op \in FusionOps : OperatorId(op) = source_id

(* the degrees the operator named by the last entry of the verified         *)
(* judgment computes from the inputs and weights supplied                   *)
ProvenDegrees(call) ==
  Degrees(OperatorNamed(Chain(judgments[call.res])[Len(Chain(judgments[call.res]))].source_id),
          Inputs(call), call.ws)

(* C12: whenever verifyConformanceSealWithInputs(fused, J, W) returns true, *)
(* the fused judgment's T, I and F are the degrees that the operator named  *)
(* by the last entry's source_id computes from J and W.                     *)
C12_Claim ==
  (last.op = "verifyConformanceSealWithInputs" /\ last.outcome = "true") =>
    /\ judgments[last.res].T = ProvenDegrees(last).T
    /\ judgments[last.res].I = ProvenDegrees(last).I
    /\ judgments[last.res].F = ProvenDegrees(last).F

(* C12, where it fails: the verification has answered true for a judgment   *)
(* whose degrees are not the ones the operator computes from the inputs     *)
C12_UnprovenDegrees ==
  /\ last.op = "verifyConformanceSealWithInputs"
  /\ last.outcome = "true"
  /\ <<judgments[last.res].T, judgments[last.res].I, judgments[last.res].F>>
       # <<ProvenDegrees(last).T, ProvenDegrees(last).I, ProvenDegrees(last).F>>

(* the list xs rearranged by the permutation p *)
Permuted(xs, p) == Array([k \in 1..Len(xs) |-> xs[p[k]]])

(* the operator id a sealing call used *)
SealedOperatorId(call) == Chain(judgments[call.res])[Len(Chain(judgments[call.res]))].source_id

(* C13: the conformance seal is independent of the order of the inputs: for *)
(* every list of judgments with weights and every permutation applied to    *)
(* both lists together, generateConformanceSeal returns the same seal.      *)
C13_Claim ==
  (last.op \in SealingOps /\ last.outcome = "ok" /\ ~Empty(StoredSeal(last.res))) =>
    \A p \in Permutations(1..Len(last.js)) :
      generateConformanceSeal(Permuted(Inputs(last), p), Permuted(SealedWeights(last), p),
                              SealedOperatorId(last)).seal = StoredSeal(last.res)

(* C13, where it fails: a seal has been generated over two judgments whose  *)
(* last entries have the same source_id, and the seal over the same two in  *)
(* the other order is another one                                           *)
C13_OrderDependent ==
  /\ last.op \in SealingOps
  /\ last.outcome = "ok"
  /\ Len(last.js) = 2
  /\ Chain(Inputs(last)[1])[Len(Chain(Inputs(last)[1]))].source_id
       = Chain(Inputs(last)[2])[Len(Chain(Inputs(last)[2]))].source_id
  /\ ~Empty(StoredSeal(last.res))
  /\ generateConformanceSeal(<<Inputs(last)[2], Inputs(last)[1]>>,
                             <<SealedWeights(last)[2], SealedWeights(last)[1]>>,
                             SealedOperatorId(last)).seal # StoredSeal(last.res)

(* the seal cannot be regenerated from what a verification was given: the   *)
(* lists differ in length, or are empty, or an input cannot be serialised   *)
CannotRegenerate(call) ==
  \/ Len(call.js) # Len(call.ws)
  \/ Len(call.js) = 0
  \/ \E k \in 1..Len(call.js) : ~ChainSerialisable(judgments[call.js[k]])

(* the seal regenerated from what a verification was given *)
Regenerated(call) ==
  generateConformanceSeal(Inputs(call), call.ws, SealedOperatorId(call)).seal

(* C14, as stated: verifyConformanceSealWithInputs fails with               *)
(* ConformanceError exactly when the last entry of the fused judgment lacks *)
(* a conformance_seal; in every other case, for any supplied judgments and  *)
(* weights, it returns a boolean, true if and only if the seal regenerated  *)
(* from them and the last entry's source_id equals the stored seal.         *)
C14_Original ==
  last.op = "verifyConformanceSealWithInputs" =>
    IF Empty(StoredSeal(last.res))
      THEN last.outcome = "throw" /\ last.error = "ConformanceError"
      ELSE /\ last.outcome \in {"true", "false"}
           /\ last.outcome = "true" <=> Regenerated(last) = StoredSeal(last.res)

(* C14, amended: it fails with ConformanceError when the last entry has no  *)
(* non-empty conformance_seal, and also when the seal cannot be regenerated *)
(* from the supplied lists (different lengths, no judgment, provenance that *)
(* cannot be serialised); in every other case it returns a boolean, true if *)
(* and only if the regenerated seal equals the stored one.                  *)
C14_Verify ==
  last.op = "verifyConformanceSealWithInputs" =>
    IF Empty(StoredSeal(last.res)) \/ CannotRegenerate(last)
      THEN last.outcome = "throw" /\ last.error = "ConformanceError"
      ELSE /\ last.outcome \in {"true", "false"}
           /\ last.outcome = "true" <=> Regenerated(last) = StoredSeal(last.res)

(* C14 happens: a judgment with a seal has been verified against lists of   *)
(* different lengths, and the verification has thrown                       *)
C14_Witness ==
  /\ last.op = "verifyConformanceSealWithInputs"
  /\ ~Empty(StoredSeal(last.res))
  /\ Len(last.js) > 0
  /\ Len(last.js) # Len(last.ws)
  /\ last.outcome = "throw"

SealFails(call) ==
  /\ Accepted(call)
  /\ \E k \in 1..Len(call.js) : ~ChainSerialisable(judgments[call.js[k]])

(* C16: if generating the seal fails inside a fusion operator, the operator *)
(* does not fail for it: it computes the same degrees as otherwise, and     *)
(* whenever the constructor takes them it returns a judgment whose chain is *)
(* the concatenated provenance of the inputs followed by one fusion entry   *)
(* that carries the sentinel seal '' instead of a hash.                     *)
C16_NonFatal ==
  SealFails(last) =>
    /\ last.T = Degrees(last.op, Inputs(last), W(last)).T
    /\ last.I = Degrees(last.op, Inputs(last), W(last)).I
    /\ last.F = Degrees(last.op, Inputs(last), W(last)).F
    /\ IF validate(last.T, last.I, last.F, Chain(judgments[last.js[1]])) = ""
         THEN /\ last.outcome = "ok"
              /\ ChainRefs(judgments[last.res])
                   = Append(newProvenance(Inputs(last)),
                            ChainRefs(judgments[last.res])[Len(ChainRefs(judgments[last.res]))])
              /\ SealedOperatorId(last) = OperatorId(last.op)
              /\ StoredSeal(last.res) = Str(<< >>)
         ELSE /\ last.outcome = "throw"
              /\ last.msg = validate(last.T, last.I, last.F, Chain(judgments[last.js[1]]))

(* C16 happens: a fusion operator has returned for two inputs, the          *)
(* provenance of one of which cannot be serialised                          *)
C16_Witness ==
  /\ SealFails(last)
  /\ Len(last.js) = 2
  /\ last.outcome = "ok"
  /\ StoredSeal(last.res) = Str(<< >>)

(* the content of a provenance entry that an id is to depend on: source_id, *)
(* timestamp, description and metadata, a weights array by its numbers      *)
IdContent(e) ==
  <<e.source_id, e.timestamp, e.description, e.metadata.kind, e.metadata.note,
    e.metadata.input_count,
    IF e.metadata.weights = 0 THEN << >> ELSE weightArrays[e.metadata.weights].elems>>

(* the judgments a and b have equal degrees and equal sequences of entries  *)
(* restricted to that content                                               *)
SameIdContent(a, b) ==
  /\ a.T = b.T /\ a.I = b.I /\ a.F = b.F
  /\ Len(Chain(a)) = Len(Chain(b))
  /\ \A k \in 1..Len(Chain(a)) : IdContent(Chain(a)[k]) = IdContent(Chain(b)[k])

IdEntries(j) == { k \in 1..Len(Chain(judgments[j])) : HasJudgmentId(Chain(judgments[j])[k]) }

(* C18: the chain of ensureJudgmentId(j) holds exactly one entry carrying a *)
(* judgment_id, and ensureJudgmentId applied to that result returns the     *)
(* same judgment and creates none.                                          *)
C18_Claim ==
  [][(last'.op = "ensureJudgmentId" /\ last'.outcome = "ok") =>
       /\ Cardinality(IdEntries(last.res)') = 1
       /\ (last.op = "ensureJudgmentId" /\ last.outcome = "ok" /\ last'.js = <<last.res>>)
            => (last'.res = last.res /\ judgments' = judgments)]_vars

(* C18, where it fails: ensureJudgmentId has returned a judgment whose      *)
(* chain holds two entries carrying a judgment_id: the fusion of two inputs *)
(* that had one each, returned as it is                                     *)
C18_TwoIds ==
  /\ last.op = "ensureJudgmentId"
  /\ last.outcome = "ok"
  /\ Cardinality(IdEntries(last.res)) = 2
  /\ Chain(judgments[last.res])[Len(Chain(judgments[last.res]))].source_id
       \in {OperatorId(op) : op \in FusionOps}

(* ---- C19 ---- *)
(* T, I and F are each in [0,1] and T + I + F is not above 1 *)
ValidDegrees(T, I, F) ==
  InUnit(T) /\ InUnit(I) /\ InUnit(F) /\ ~Gt(Add(Add(T, I), F), Num(1))

(* the last call was createOutcomeJudgment *)
OutcomeCalled == last.op = "createOutcomeJudgment"

(* the outcome the last call returned is the one its arguments describe:   *)
(* the caller's entries followed by one oracle entry, the fields equal to  *)
(* the arguments, the id that of a judgment of the same degrees and chain   *)
AsRecorded ==
  /\ last.res \in 1..Len(outcomes)
  /\ Len(OutcomeChain(outcomes[last.res])) = Len(last.chain) + 1
  /\ SubSeq(OutcomeChain(outcomes[last.res]), 1, Len(last.chain)) = last.chain
  /\ OutcomeChain(outcomes[last.res])[Len(last.chain) + 1].source_id = last.js[3]
  /\ OutcomeChain(outcomes[last.res])[Len(last.chain) + 1].metadata.kind = "oracle"
  /\ OutcomeChain(outcomes[last.res])[Len(last.chain) + 1].metadata.note = last.js[2]
  /\ OutcomeChain(outcomes[last.res])[Len(last.chain) + 1].metadata.link = last.js[1]
  /\ outcomes[last.res].links_to_judgment_id = last.js[1]
  /\ outcomes[last.res].outcome_type = last.js[2]
  /\ outcomes[last.res].oracle_source = last.js[3]
  /\ outcomes[last.res].T = last.T
  /\ outcomes[last.res].I = last.I
  /\ outcomes[last.res].F = last.F
  /\ JudgmentIdOf(last.T, last.I, last.F, OutcomeChain(outcomes[last.res])).ok
  /\ outcomes[last.res].judgment_id =
       JudgmentIdOf(last.T, last.I, last.F, OutcomeChain(outcomes[last.res])).id

(* C19 as stated: whenever T, I, F are valid createOutcomeJudgment returns *)
(* the outcome its arguments describe, whatever oracleSource and            *)
(* extraProvenance are; otherwise it throws and creates no outcome          *)
C19_Original ==
  [][OutcomeCalled' =>
       IF ValidDegrees(last'.T, last'.I, last'.F)
         THEN last'.outcome = "outcome" /\ AsRecorded'
         ELSE last'.outcome = "throw" /\ outcomes' = outcomes]_vars

(* the chain createOutcomeJudgment can build a judgment and an id from:    *)
(* oracleSource is a non-empty string, every entry of extraProvenance has  *)
(* a source_id and a timestamp and metadata that JSON can write             *)
UsableProvenance(oracleSource, lits) ==
  /\ ~Falsy(oracleSource)
  /\ ~LacksField(lits)
  /\ \A k \in 1..Len(lits) : Serialisable(lits[k].metadata)

(* C19: for valid T, I, F and a usable provenance createOutcomeJudgment    *)
(* returns an outcome whose chain is extraProvenance followed by exactly   *)
(* one oracle entry (source_id = oracleSource, metadata with outcome_type  *)
(* and links_to_judgment_id), whose fields equal the arguments and whose   *)
(* judgment_id is generateJudgmentId of a judgment of the same T, I, F and *)
(* chain; in every other case, degrees outside [0,1] or of sum above 1     *)
(* among them, it throws and creates no outcome                             *)
C19_Outcome ==
  [][OutcomeCalled' =>
       IF ValidDegrees(last'.T, last'.I, last'.F) /\ UsableProvenance(last'.js[3], last'.chain)
         THEN last'.outcome = "outcome" /\ AsRecorded'
         ELSE last'.outcome = "throw" /\ outcomes' = outcomes]_vars

(* an outcome was returned for two entries of the caller's *)
C19_Witness ==
  /\ OutcomeCalled
  /\ last.outcome = "outcome"
  /\ Len(last.chain) = 2
  /\ Len(OutcomeChain(outcomes[last.res])) = 3
  /\ outcomes[last.res].judgment_id.def

(* ---- C20 ---- *)
(* a degree is below 0 or above 1, or the sum is above 1 *)
Violation(T, I, F) ==
  \/ \E x \in {T, I, F} : Lt(x, Num(0)) \/ Gt(x, Num(1))
  \/ Gt(Add(Add(T, I), F), Num(1))

(* the last call, with degrees in violation, threw an error of this class *)
Reported(op, error) ==
  (last.op = op /\ Violation(last.T, last.I, last.F))
    => (last.outcome = "throw" /\ last.error = error)

EntryContent(e) ==
  <<e.source_id, e.timestamp, e.description, e.metadata.kind, e.metadata.note,
    e.metadata.input_count, e.metadata.link,
    IF e.metadata.weights = 0 THEN << >> ELSE weightArrays[e.metadata.weights].elems,
    e.conformance_seal, e.judgment_id>>

(* judgments a and b are identical: the degrees and every entry's content *)
SameOutput(a, b) ==
  /\ a.T = b.T /\ a.I = b.I /\ a.F = b.F
  /\ Len(Chain(a)) = Len(Chain(b))
  /\ \A k \in 1..Len(Chain(a)) : EntryContent(Chain(a)[k]) = EntryContent(Chain(b)[k])

(* judgment a is identical to the one the last call returned *)
SameAsLast(a) == SameOutput(judgments[a], judgments[last.res])

(* the call just made repeats the call before it: same operation, same     *)
(* judgments, same weights                                                  *)
Repeated ==
  /\ last.op \in FusionOps /\ last.outcome = "ok"
  /\ last'.op = last.op /\ last'.outcome = "ok"
  /\ last'.js = last.js /\ last'.ws = last.ws

(* generateJudgmentId(j) is called after ensureJudgmentId(j) stored an id *)
Regenerates ==
  /\ last.op = "ensureJudgmentId" /\ last.outcome = "ok" /\ last.res # last.js[1]
  /\ last'.op = "generateJudgmentId" /\ last'.outcome = "id"
  /\ last'.js = last.js

(* C21 as stated: a fusion operator called twice on the same judgments and *)
(* weights returns identical judgments (seal included) whatever the clock  *)
(* reads at each call, and generateJudgmentId returns the same id for the  *)
(* same judgment at any time                                                *)
C21_Claim ==
  [][/\ Repeated => \A a \in {last.res} : SameAsLast(a)'
     /\ Regenerates =>
          last'.chain[1] = Chain(judgments[last.res])[Len(Chain(judgments[last.res]))].judgment_id
    ]_vars

(* the same operator fused the same one-judgment list twice, at two        *)
(* instants: the two outputs agree in degrees, seal and input entries and   *)
(* differ in the timestamp of their fusion entry                           *)
C21_ClockShows ==
  /\ last.op \in FusionOps /\ last.outcome = "ok"
  /\ \E a \in 1..(last.res - 1) :
       /\ Len(Chain(judgments[a])) = Len(Chain(judgments[last.res]))
       /\ Len(Chain(judgments[a])) >= 2
       /\ judgments[a].T = judgments[last.res].T
       /\ judgments[a].I = judgments[last.res].I
       /\ judgments[a].F = judgments[last.res].F
       /\ \A k \in 1..(Len(Chain(judgments[a])) - 1) :
            ChainRefs(judgments[a])[k] = ChainRefs(judgments[last.res])[k]
       /\ StoredSeal(a) = StoredSeal(last.res)
       /\ StoredSeal(a).def /\ StoredSeal(a).s # << >>
       /\ Chain(judgments[a])[Len(Chain(judgments[a]))].metadata.note = last.op
       /\ Chain(judgments[a])[Len(Chain(judgments[a]))].timestamp
            # Chain(judgments[last.res])[Len(Chain(judgments[last.res]))].timestamp

(* ---- C22 ---- *)
(* the entry carries a conformance_seal or a judgment_id field *)
Marked(e) == e.conformance_seal.def \/ e.judgment_id.def

(* in every judgment only the final entry of the chain is marked *)
OnlyFinalMarked ==
  \A j \in 1..Len(judgments) : \A k \in 1..(Len(Chain(judgments[j])) - 1) :
    ~Marked(Chain(judgments[j])[k])

(* the step leaves every entry object that exists as it is *)
Untouched == \A k \in 1..Len(entries) : entries'[k] = entries[k]

(* C22 as stated: in every judgment the operations produce, judgment_id    *)
(* and conformance_seal occur on the final entry of the chain only, and no *)
(* operation changes an entry that already existed                          *)
C22_Original == [][OnlyFinalMarked' /\ Untouched]_vars

(* the step is a fusion operator or ensureJudgmentId returning a new       *)
(* judgment                                                                 *)
Produces ==
  /\ last'.op \in FusionOps \cup {"ensureJudgmentId"}
  /\ last'.outcome = "ok"
  /\ Len(judgments') = Len(judgments) + 1

(* the new judgment's chain is made of entries that existed, followed by   *)
(* the one entry the step created, and that entry alone is newly marked:   *)
(* with a seal and no id by a fusion operator, with an id and no seal by   *)
(* ensureJudgmentId                                                         *)
AttachedLast ==
  /\ Len(entries') = Len(entries) + 1
  /\ \A refs \in {arrays'[judgments'[Len(judgments')].provenance_chain].elems} :
       /\ Len(refs) >= 2
       /\ refs[Len(refs)] = Len(entries')
       /\ \A k \in 1..(Len(refs) - 1) : refs[k] \in 1..Len(entries)
  /\ \A e \in {entries'[Len(entries')]} :
       IF last'.op = "ensureJudgmentId"
         THEN HasJudgmentId(e) /\ ~e.conformance_seal.def
         ELSE e.conformance_seal.def /\ ~e.judgment_id.def

(* C22: a fusion operator and ensureJudgmentId attach conformance_seal and *)
(* judgment_id only to the one entry they append as the final entry of the *)
(* new chain, and no operation changes or adds fields to an entry that     *)
(* already existed: the earlier entries of the new chain are the input     *)
(* entries themselves, with the seals and ids they already carried          *)
C22_AttachedLast == [][Untouched /\ (Produces => AttachedLast)]_vars

(* a fusion operator has fused a fusion output: the seal of the inner      *)
(* fusion sits on an entry that is not the final one                        *)
C22_Witness ==
  /\ last.op \in FusionOps /\ last.outcome = "ok"
  /\ \E k \in 1..Len(last.js) :
       Chain(judgments[last.js[k]])[Len(Chain(judgments[last.js[k]]))].source_id
         \in {OperatorId(op) : op \in FusionOps}
  /\ \E k \in 1..(Len(Chain(judgments[last.res])) - 1) :
       /\ Chain(judgments[last.res])[k].conformance_seal.def
       /\ Chain(judgments[last.res])[k].conformance_seal.s # << >>
       /\ Chain(judgments[last.res])[k].source_id \in {OperatorId(op) : op \in FusionOps}

(* ---- C23 ---- *)
(* the last call fused a list of one judgment and returned *)
SingleFused ==
  /\ last.op \in FusionOps
  /\ last.outcome = "ok"
  /\ Len(last.js) = 1
  /\ ValidDegrees(judgments[last.js[1]].T, judgments[last.js[1]].I, judgments[last.js[1]].F)

(* the returned judgment has exactly the degrees of the one input *)
SameDegrees ==
  /\ judgments[last.res].T = judgments[last.js[1]].T
  /\ judgments[last.res].I = judgments[last.js[1]].I
  /\ judgments[last.res].F = judgments[last.js[1]].F

(* C23 as stated: each fusion operator applied to a list of one valid      *)
(* judgment returns a judgment with exactly that judgment's T, I and F,    *)
(* for conflict_aware_weighted_average whatever the numeric weight          *)
C23_Claim == SingleFused => SameDegrees

(* conflict_aware_weighted_average of one judgment with weight 1 returned  *)
(* a T that is not the input's: (T * a) / a is rounded twice, a being the   *)
(* rounded 1 - T * F                                                        *)
C23_Drift ==
  /\ SingleFused
  /\ last.op = "conflict_aware_weighted_average"
  /\ last.ws = <<Num(1)>>
  /\ ~IsNaN(judgments[last.res].T)
  /\ judgments[last.res].T # judgments[last.js[1]].T
  /\ judgments[last.res].I = judgments[last.js[1]].I

(* ---- C24 ---- *)
(* T + I + F as JavaScript adds it *)
Mass(j) == Add(Add(j.T, j.I), j.F)

(* the last call is conflict_aware_weighted_average on judgments of mass   *)
(* exactly 1 each, with arguments that pass its checks                      *)
FullMassInputs ==
  /\ last.op = "conflict_aware_weighted_average"
  /\ Accepted(last)
  /\ \A k \in 1..Len(last.js) : Mass(judgments[last.js[k]]) = Num(1)

(* C24 as stated: conflict_aware_weighted_average of judgments of mass     *)
(* exactly 1 returns a judgment of mass exactly 1, on the weighted path    *)
(* and on the fallback path of a zero total weight                          *)
C24_Claim ==
  FullMassInputs => (last.outcome = "ok" /\ Mass(judgments[last.res]) = Num(1))

(* two judgments of mass 1 were averaged with weights 1 and 1 and the       *)
(* judgment returned has a mass that is not 1                               *)
C24_MassLost ==
  /\ FullMassInputs
  /\ last.ws = <<Num(1), Num(1)>>
  /\ last.outcome = "ok"
  /\ ~IsNaN(Mass(judgments[last.res]))
  /\ Mass(judgments[last.res]) # Num(1)

(* ---- C25 ---- *)
(* the last call applied a mapper to its own point of this name *)
AppliedAt(point) ==
  /\ last.op = "apply"
  /\ last.ws = <<mappers[last.js[1]].parameters[point]>>

(* the call returned a judgment with these degrees *)
Yields(T, I, F) ==
  /\ last.outcome = "ok"
  /\ judgments[last.res].T = Num(T)
  /\ judgments[last.res].I = Num(I)
  /\ judgments[last.res].F = Num(F)

(* C25 as stated: a NumericalMapper, whose three points are pairwise       *)
(* distinct in any order, maps its falsity point to (0,0,1), its           *)
(* indeterminacy point to (0,1,0) and its truth point to (1,0,0)           *)
C25_Claim ==
  /\ AppliedAt("falsity_point") => Yields(0, 0, 1)
  /\ AppliedAt("indeterminacy_point") => Yields(0, 1, 0)
  /\ AppliedAt("truth_point") => Yields(1, 0, 0)

(* a mapper with falsity 0, truth 1 and indeterminacy 2 was applied to its *)
(* truth point and returned (0, 1/2, 1/2)                                   *)
C25_TruthPointSplit ==
  /\ AppliedAt("truth_point")
  /\ mappers[last.js[1]].parameters.falsity_point = Num(0)
  /\ mappers[last.js[1]].parameters.truth_point = Num(1)
  /\ mappers[last.js[1]].parameters.indeterminacy_point = Num(2)
  /\ last.outcome = "ok"
  /\ judgments[last.res].T = Num(0)
  /\ judgments[last.res].I = Frac(1, 2)
  /\ judgments[last.res].F = Frac(1, 2)

(* ---- C26 ---- *)
(* the ids registered in the Map, and the mapper kept under an id (0: none) *)
RegisteredIds(map) == {map[k].id : k \in 1..Len(map)}

KeptUnder(map, id) ==
  IF id \in RegisteredIds(map)
    THEN map[CHOOSE k \in 1..Len(map) :
               map[k].id = id /\ \A n \in (k + 1)..Len(map) : map[n].id # id].mapper
    ELSE 0

(* the ids other than id keep their mappers in the step *)
OthersKept(id) ==
  \A other \in (RegisteredIds(registry) \cup RegisteredIds(registry')) \ {id} :
    KeptUnder(registry', other) = KeptUnder(registry, other)

(* the step stores mapper m under its id *)
Stores(m) ==
  /\ last'.outcome = "ok"
  /\ KeptUnder(registry', mappers[m].parameters.id) = m
  /\ OthersKept(mappers[m].parameters.id)

(* the step fails with a ValidationError and leaves the registry as it is *)
Refuses ==
  /\ last'.outcome = "throw"
  /\ last'.error = "ValidationError"
  /\ registry' = registry

(* the mapper object is one its validate() accepts *)
ValidMapper(m) ==
  /\ mappers[m].parameters.falsity_point # mappers[m].parameters.indeterminacy_point
  /\ mappers[m].parameters.falsity_point # mappers[m].parameters.truth_point
  /\ mappers[m].parameters.indeterminacy_point # mappers[m].parameters.truth_point

(* what each call of the registry has to do *)
RegistryStep ==
  CASE last'.op = "register" ->
         IF mappers[last'.js[1]].parameters.id \in RegisteredIds(registry) THEN Refuses
         ELSE IF ValidMapper(last'.js[1]) THEN Stores(last'.js[1])
         ELSE Refuses
    [] last'.op = "update" ->
         IF mappers[last'.js[1]].parameters.id \notin RegisteredIds(registry) THEN Refuses
         ELSE IF ValidMapper(last'.js[1]) THEN Stores(last'.js[1])
         ELSE Refuses
    [] last'.op = "registerOrUpdate" ->
         IF ValidMapper(last'.js[1]) THEN Stores(last'.js[1]) ELSE Refuses
    [] last'.op = "unregister" ->
         /\ last'.outcome = IF last'.js[1] \in RegisteredIds(registry) THEN "true" ELSE "false"
         /\ KeptUnder(registry', last'.js[1]) = 0
         /\ OthersKept(last'.js[1])
    [] last'.op = "clear" -> last'.outcome = "ok" /\ RegisteredIds(registry') = {}
    [] last'.op = "get" ->
         /\ last'.outcome = "ok"
         /\ last'.res = KeptUnder(registry, last'.js[1])
         /\ registry' = registry
    [] last'.op = "count" ->
         /\ last'.outcome = "ok"
         /\ last'.res = Cardinality(RegisteredIds(registry))
         /\ registry' = registry
    [] OTHER -> TRUE

(* C26: after any sequence of register, update, registerOrUpdate,          *)
(* unregister and clear, count() is the number of distinct registered ids  *)
(* and get(id) is the mapper most recently stored under id; register of a  *)
(* registered id and update of an unregistered id throw ValidationError    *)
(* and leave the registry unchanged; unregister returns true exactly when  *)
(* the id was registered                                                    *)
C26_Registry ==
  [][RegistryStep /\ Len(registry') = Cardinality(RegisteredIds(registry'))]_vars

(* update has replaced the mapper kept under mapper1 by the second mapper  *)
(* of that id, next to a mapper registered under mapper2                    *)
C26_Witness ==
  /\ last.op = "update"
  /\ last.outcome = "ok"
  /\ last.js = <<2>>
  /\ Len(registry) = 2
  /\ KeptUnder(registry, "mapper1") = 2
  /\ KeptUnder(registry, "mapper2") = 3

(* ---- C27 ---- *)
(* judgment f is what ensureJudgmentId made of judgment g, the output of a *)
(* fusion operator: g's chain followed by one entry of the id generator    *)
IdOfFused(f, g) ==
  /\ Len(ChainRefs(judgments[f])) = Len(ChainRefs(judgments[g])) + 1
  /\ SubSeq(ChainRefs(judgments[f]), 1, Len(ChainRefs(judgments[g]))) = ChainRefs(judgments[g])
  /\ Chain(judgments[f])[Len(Chain(judgments[f]))].source_id = "otp-judgment-id-generator"
  /\ HasJudgmentId(Chain(judgments[f])[Len(Chain(judgments[f]))])
  /\ ~Empty(StoredSeal(g))
  /\ Chain(judgments[g])[Len(Chain(judgments[g]))].source_id \in {OperatorId(op) : op \in FusionOps}

(* C27: a sealed fusion output to which ensureJudgmentId has appended its  *)
(* id entry cannot be verified any more: verifyConformanceSealWithInputs   *)
(* on it throws ConformanceError whatever inputs and weights are supplied, *)
(* the original ones included                                               *)
C27_SealHidden ==
  (/\ last.op = "verifyConformanceSealWithInputs"
   /\ \E g \in 1..Len(judgments) : IdOfFused(last.res, g))
    => (last.outcome = "throw" /\ last.error = "ConformanceError")

(* the judgment verified is the id-carrying copy of a fusion output, and   *)
(* the inputs and weights supplied are the ones that verify the fusion     *)
(* output itself                                                            *)
C27_Witness ==
  /\ last.op = "verifyConformanceSealWithInputs"
  /\ last.outcome = "throw"
  /\ last.msg = "Missing conformance seal in fused judgment"
  /\ \E g \in 1..Len(judgments) :
       /\ IdOfFused(last.res, g)
       /\ verifyWithInputs(judgments[g], Inputs(last), last.ws) = "true"

(* ---- C28 ---- *)
(* the step is ensureJudgmentId returning a new judgment *)
Ensures ==
  /\ last'.op = "ensureJudgmentId"
  /\ last'.outcome = "ok"
  /\ last'.res # last'.js[1]

(* the new judgment r is judgment j with one entry more, and that entry    *)
(* carries the id generateJudgmentId gave for j before the step            *)
Extended(j, r) ==
  /\ judgments'[r].T = judgments[j].T
  /\ judgments'[r].I = judgments[j].I
  /\ judgments'[r].F = judgments[j].F
  /\ \A k \in 1..Len(entries) : entries'[k] = entries[k]
  /\ \A refs \in {arrays'[judgments'[r].provenance_chain].elems} :
       /\ Len(refs) = Len(ChainRefs(judgments[j])) + 1
       /\ SubSeq(refs, 1, Len(refs) - 1) = ChainRefs(judgments[j])
       /\ refs[Len(refs)] \notin 1..Len(entries)
       /\ generateJudgmentId(judgments[j]).ok
       /\ entries'[refs[Len(refs)]].judgment_id = generateJudgmentId(judgments[j]).id

(* C28: when ensureJudgmentId appends an id entry to a judgment j without  *)
(* a judgment_id, the id stored is generateJudgmentId(j) computed on j     *)
(* before the entry is appended, and the judgment returned has j's T, I, F *)
(* and j's chain followed by that single entry                              *)
C28_IdOfOriginal ==
  [][Ensures => \A j \in {last'.js[1]} : \A r \in {last'.res} : Extended(j, r)]_vars

(* ensureJudgmentId has returned a copy of a fusion output, with an id     *)
(* entry after the fusion entry                                             *)
C28_Witness ==
  /\ last.op = "ensureJudgmentId"
  /\ last.outcome = "ok"
  /\ last.res # last.js[1]
  /\ Len(Chain(judgments[last.js[1]])) >= 2
  /\ Len(Chain(judgments[last.res])) = Len(Chain(judgments[last.js[1]])) + 1
  /\ Chain(judgments[last.res])[Len(Chain(judgments[last.res]))].judgment_id
       = generateJudgmentId(judgments[last.js[1]]).id

(* ---- C29 ---- *)
(* both operators have returned for the same list: o is the judgment of    *)
(* optimistic_fusion and p the judgment of pessimistic_fusion               *)
BothFused(o, p) ==
  /\ last.outcome = "ok"
  /\ {o, p} = {PoolSize + 1, PoolSize + 2}
  /\ Len(judgments) = PoolSize + 2
  /\ Chain(judgments[o])[Len(Chain(judgments[o]))].metadata.note = "optimistic_fusion"
  /\ Chain(judgments[p])[Len(Chain(judgments[p]))].metadata.note = "pessimistic_fusion"
  /\ \A k \in 1..Len(last.js) : ValidDegrees(judgments[last.js[k]].T, judgments[last.js[k]].I,
                                           judgments[last.js[k]].F)

(* C29: on the same non-empty list of valid judgments optimistic_fusion    *)
(* returns a T that is at least, and an F that is at most, the T and the F *)
(* pessimistic_fusion returns, rescaled or not                              *)
C29_Ordered ==
  \A o, p \in (PoolSize + 1)..Len(judgments) :
    BothFused(o, p) =>
      /\ Ge(judgments[o].T, judgments[p].T)
      /\ Le(judgments[o].F, judgments[p].F)

(* both have returned for the judgments (0, e, 1) and (0, 2e, 1 - e), e half *)
(* of Number.EPSILON: optimistic_fusion keeps F = 1 - e, pessimistic_fusion *)
(* rescales F = 1 to less than that                                         *)
C29_RescaledBelow ==
  /\ Len(last.js) = 2
  /\ \E o, p \in (PoolSize + 1)..Len(judgments) :
       /\ BothFused(o, p)
       /\ judgments[o].F = Sub(Num(1), HalfEpsilon)
       /\ Lt(judgments[p].F, judgments[o].F)

(* ---- C30 ---- *)
(* judgment f ends with the entry of a fusion operator whose seal is the   *)
(* sentinel                                                                 *)
CarriesSentinel(f) ==
  /\ Len(Chain(judgments[f])) > 0
  /\ Chain(judgments[f])[Len(Chain(judgments[f]))].source_id \in {OperatorId(op) : op \in FusionOps}
  /\ Chain(judgments[f])[Len(Chain(judgments[f]))].metadata.kind = "fusion"
  /\ StoredSeal(f) = Str(<< >>)

(* C30: the seal a fusion operator stores when generating the seal fails   *)
(* is the empty string, and verifyConformanceSealWithInputs takes it for a *)
(* missing seal: on a fused judgment that carries it, it throws            *)
(* ConformanceError whatever inputs and weights are supplied, and returns  *)
(* neither true nor false                                                   *)
C30_SentinelMissing ==
  /\ (SealFails(last) /\ last.outcome = "ok") => CarriesSentinel(last.res)
  /\ (last.op = "verifyConformanceSealWithInputs" /\ CarriesSentinel(last.res))
       => /\ last.outcome = "throw"
          /\ last.error = "ConformanceError"
          /\ last.msg = "Missing conformance seal in fused judgment"

(* a judgment with the sentinel was verified with inputs and weights from  *)
(* which a seal can be generated                                            *)
C30_Witness ==
  /\ last.op = "verifyConformanceSealWithInputs"
  /\ CarriesSentinel(last.res)
  /\ last.outcome = "throw"
  /\ Len(last.js) > 0
  /\ generateConformanceSeal(Inputs(last), last.ws, SealedOperatorId(last)).ok
====
